---- MODULE Spec2Model ----
(***************************************************************************)
(* State-machine model of togglepad: the MovementWorker scheduler loop     *)
(* (src/togglepad/worker.py), its control surface toggle / stop /          *)
(* apply_live_config, the ForegroundGuard activity gate                    *)
(* (src/togglepad/guard.py), the XboxBackend output sink                   *)
(* (src/togglepad/backends/xpad.py) and the hotkey callbacks of            *)
(* src/xpad_app.py.                                                        *)
(*                                                                         *)
(* Two threads run: the worker thread executing MovementWorker._loop, and  *)
(* the hotkey thread that calls the control surface, one call at a time.   *)
(* Every shared read or write, sink call and sleep of the loop is one      *)
(* step, labelled with its line in worker.py.                              *)
(*                                                                         *)
(* Time.  Durations are integers in milliseconds; magnitudes and           *)
(* intensities are integers in thousandths.  Only the loop reads the       *)
(* clock, and it only ever compares `now` with its own timestamps, so the  *)
(* timestamps hold_until, next_a, next_rt are stored relative to `now`     *)
(* (value - now, clipped below at 0: "reached"), `elapsed` is              *)
(* time.time() - now, and the guard keeps the time since _last_check       *)
(* (saturating at its interval).  Time passes in time.sleep calls.         *)
(***************************************************************************)
EXTENDS Integers, Sequences, FiniteSets, TLC

\* Number of control-surface calls (toggle, reload, stop, exit) the hotkey
\* thread makes in one run.
MaxCalls == 2

\* time.sleep(0.03) while paused, in milliseconds.
PauseSleep == 30

\* ForegroundGuard's floor on check_ms, in milliseconds.
MinCheckMs == 50

\* float("inf"), the due time of a channel that is not armed.
Inf == 1000000

None == "None"

Max(a, b) == IF a >= b THEN a ELSE b
Min(a, b) == IF a <= b THEN a ELSE b

-----------------------------------------------------------------------------
(* AppConfig values: the parameter sets load_config can hand to the worker. *)

CfgNames == {"A", "B"}

Cfg ==
  [c \in CfgNames |->
     IF c = "A"
     THEN [ hold_seconds_range        |-> <<30, 60>>,
            stick_magnitude_range     |-> <<500, 1000>>,
            a_interval_range          |-> <<60, 60>>,
            a_hold_seconds_range      |-> <<60, 60>>,
            rt_interval_range         |-> <<30, 60>>,
            rt_intensity_range        |-> <<600, 600>>,
            rt_hold_seconds_range     |-> <<30, 30>>,
            loop_sleep_seconds        |-> 30,
            enable_a                  |-> TRUE,
            enable_rt                 |-> TRUE,
            allow_diagonals           |-> FALSE,
            direction_weights         |-> <<1, 0, 0, 0>>,
            only_actions_while_moving |-> FALSE,
            move_threshold            |-> 100,
            guard_enabled             |-> TRUE,
            guard_mode                |-> "blacklist",
            guard_processes           |-> {"Game.exe"},
            guard_check_ms            |-> 20 ]
     ELSE [ hold_seconds_range        |-> <<0, 0>>,
            stick_magnitude_range     |-> <<1000, 1000>>,
            a_interval_range          |-> <<30, 30>>,
            a_hold_seconds_range      |-> <<0, 0>>,
            rt_interval_range         |-> <<60, 60>>,
            rt_intensity_range        |-> <<1000, 1000>>,
            rt_hold_seconds_range     |-> <<0, 0>>,
            loop_sleep_seconds        |-> 60,
            enable_a                  |-> TRUE,
            enable_rt                 |-> FALSE,
            allow_diagonals           |-> TRUE,
            direction_weights         |-> <<0, 0, 1, 0>>,
            only_actions_while_moving |-> TRUE,
            move_threshold            |-> 750,
            guard_enabled             |-> TRUE,
            guard_mode                |-> "whitelist",
            guard_processes           |-> {"game.EXE"},
            guard_check_ms            |-> 60 ] ]

\* The AppConfig the worker is constructed with.
InitCfg == "A"

\* What foreground_exe_basename() can return: a basename, or None.
Foreground == {None, "Game.exe", "other.exe"}

-----------------------------------------------------------------------------
(* Pure helpers.                                                            *)

\* str.strip() on the strings of the model.
Strip(s) ==
  CASE s = " game.EXE " -> "game.EXE"
    [] s = " "          -> ""
    [] OTHER            -> s

\* str.lower() on the strings of the model.
Lower(s) ==
  CASE s = "Game.exe"   -> "game.exe"
    [] s = "game.EXE"   -> "game.exe"
    [] s = " game.EXE " -> " game.exe "
    [] s = "Blacklist"  -> "blacklist"
    [] OTHER            -> s

\* random.uniform(lo, hi): a value of [lo, hi]; the model draws the two ends.
Uniform(rng) == {rng[1], rng[2]}

\* Variant of ForegroundGuard that takes check_ms as the interval, unfloored.
ForegroundGuard_NoFloor(enabled, mode, processes, check_ms) ==
  [ enabled     |-> enabled,
    mode        |-> Lower(Strip(IF mode = "" THEN "blacklist" ELSE mode)),
    processes   |-> {Lower(Strip(p)) : p \in {q \in processes : Strip(q) # ""}},
    interval    |-> check_ms,
    since_check |-> check_ms,
    cached_ok   |-> TRUE ]

\* ForegroundGuard(enabled=, mode=, processes=, check_ms=).  since_check is
\* time.time() - _last_check, saturating at interval: _last_check starts at
\* 0.0, an epoch ago.
ForegroundGuard(enabled, mode, processes, check_ms) ==
  LET interval == Max(MinCheckMs, check_ms)
  IN [ enabled     |-> enabled,
       mode        |-> Lower(Strip(IF mode = "" THEN "blacklist" ELSE mode)),
       processes   |-> {Lower(Strip(p)) : p \in {q \in processes : Strip(q) # ""}},
       interval    |-> interval,
       since_check |-> interval,
       cached_ok   |-> TRUE ]

\* Variant of allow_action that compares the identifier as it was obtained.
allow_action_CaseSensitive(g, name) ==
  IF ~g.enabled \/ g.processes = {}
  THEN [ok |-> TRUE, guard |-> g, queried |-> FALSE]
  ELSE IF g.since_check < g.interval
  THEN [ok |-> g.cached_ok, guard |-> g, queried |-> FALSE]
  ELSE LET in_set == (IF name = None THEN "" ELSE name) \in g.processes
           ok     == IF g.mode = "blacklist" THEN ~in_set ELSE in_set
       IN [ok |-> ok,
           guard |-> [g EXCEPT !.since_check = 0, !.cached_ok = ok],
           queried |-> TRUE]

\* Variant of allow_action that passes a disabled guard only, not an empty set.
allow_action_EnabledOnly(g, name) ==
  IF ~g.enabled
  THEN [ok |-> TRUE, guard |-> g, queried |-> FALSE]
  ELSE IF g.since_check < g.interval
  THEN [ok |-> g.cached_ok, guard |-> g, queried |-> FALSE]
  ELSE LET in_set == Lower(IF name = None THEN "" ELSE name) \in g.processes
           ok     == IF g.mode = "blacklist" THEN ~in_set ELSE in_set
       IN [ok |-> ok,
           guard |-> [g EXCEPT !.since_check = 0, !.cached_ok = ok],
           queried |-> TRUE]

\* ForegroundGuard.allow_action() on guard g when the foreground query would
\* answer `name`: the decision, the guard afterwards, whether it queried.
allow_action(g, name) ==
  IF ~g.enabled \/ g.processes = {}
  THEN [ok |-> TRUE, guard |-> g, queried |-> FALSE]
  ELSE IF g.since_check < g.interval
  THEN [ok |-> g.cached_ok, guard |-> g, queried |-> FALSE]
  ELSE LET in_set == Lower(IF name = None THEN "" ELSE name) \in g.processes
           ok     == IF g.mode = "blacklist" THEN ~in_set ELSE in_set
       IN [ok |-> ok,
           guard |-> [g EXCEPT !.since_check = 0, !.cached_ok = ok],
           queried |-> TRUE]

\* self._cardinals and self._diagonals, in thousandths.
Cardinals == << <<0, 1000>>, <<1000, 0>>, <<0, -1000>>, <<-1000, 0>> >>
Diagonals == << <<707, 707>>, <<707, -707>>, <<-707, -707>>, <<-707, 707>> >>

\* Variant of Candidates whose diagonals always get the mean, also when the
\* weights are all zero.
Candidates_MeanOnly(dir_w, allow_diagonals) ==
  LET w   == [i \in 1..4 |-> 4 * dir_w[i]]
      avg == dir_w[1] + dir_w[2] + dir_w[3] + dir_w[4]
  IN IF allow_diagonals
     THEN [dirs |-> Cardinals \o Diagonals, w |-> w \o <<avg, avg, avg, avg>>]
     ELSE [dirs |-> Cardinals, w |-> w]

\* _pick_direction's candidate list and weights (weights times 4, so that
\* the diagonals' average sum(w) / 4.0 stays an integer).
Candidates(dir_w, allow_diagonals) ==
  LET w   == [i \in 1..4 |-> 4 * dir_w[i]]
      any == \E i \in 1..4 : dir_w[i] # 0
      avg == IF any THEN dir_w[1] + dir_w[2] + dir_w[3] + dir_w[4] ELSE 4
  IN IF allow_diagonals
     THEN [dirs |-> Cardinals \o Diagonals, w |-> w \o <<avg, avg, avg, avg>>]
     ELSE [dirs |-> Cardinals, w |-> w]

\* itertools.accumulate(w)[i - 1]: the sum of the first i weights.
RECURSIVE SumTo(_, _)
SumTo(w, i) == IF i = 0 THEN 0 ELSE SumTo(w, i - 1) + w[i]

\* bisect.bisect(a, x, lo, hi) for the cumulative weights a = accumulate(w)
\* (0-based, as in the library) and x = x2 / 2.
RECURSIVE Bisect(_, _, _, _)
Bisect(w, x2, lo, hi) ==
  IF lo >= hi THEN lo
  ELSE LET mid == (lo + hi) \div 2
       IN IF x2 < 2 * SumTo(w, mid + 1)
          THEN Bisect(w, x2, lo, mid)
          ELSE Bisect(w, x2, mid + 1, hi)

\* random.choices(range(len(dirs)), weights=w, k=1)[0]: the indices (from 1)
\* that bisect(cum_weights, random() * total, 0, n - 1) can give, random() * total
\* taking every whole and half value of [0, total).  The empty set when
\* total <= 0: random.choices raises ValueError.
Choices(w) ==
  LET total == SumTo(w, Len(w))
  IN IF total <= 0 THEN {}
     ELSE {Bisect(w, x2, 0, Len(w) - 1) + 1 : x2 \in 0..(2 * total - 1)}

\* XboxBackend.neutralize() on the pad's pending report.
Neutral == [x |-> 0, y |-> 0, rt |-> 0, a |-> FALSE]

-----------------------------------------------------------------------------
(* State.                                                                   *)

VARIABLES
  \* MovementWorker fields
  running,      \* self._running
  terminate,    \* self._terminate
  lock,         \* holder of self._lock: "free", "loop" or "ctl"
  inst,         \* the live config fields hold_rng .. move_threshold
  guard,        \* self.guard, a ForegroundGuard
  current_mag,  \* self._current_mag
  \* XboxBackend: the pad's pending report and the report last sent by update()
  gp,
  dev,
  \* locals of _loop on the worker thread
  pc,           \* "unstarted", a line of _loop, a step of a sink call, "done"
  snap,         \* the snapshot taken under the lock (lines 166-171)
  hold_until,
  next_a,
  next_rt,
  elapsed,      \* time.time() - now
  w,            \* _pick_direction: the weights read at line 140, or <<>>
  vec,          \* (x, y, mag) returned by _pick_direction, or <<>>
  hold_arg,     \* hold_seconds passed to tap_a / pull_rt (0 outside a call)
  inten,        \* intensity sampled at line 206 (0 outside)
  gate,         \* result of the allow_action() call of line 174, [] outside
  \* the hotkey thread: the control-surface call in progress
  cpc,          \* "idle", a line of toggle / on_exit, "apply", "exited"
  ai,           \* apply_live_config: index of the next assignment (0 outside)
  cfg_arg,      \* apply_live_config: the AppConfig passed in
  s,            \* toggle: the local s ("ON" / "OFF"), "" before any toggle
  \* history
  seen,         \* the configs all parameter reads of the current tick agree with
  hold_src,     \* the hold-duration Range the current hold_arg was drawn from
  loop_ops,     \* the last two sink calls of the loop
  log,          \* the control-surface calls made so far, in order
  t_ops,        \* the sink calls made by the last toggle()
  fresh         \* per channel: its due time was sampled since the loop last
                \* took a snapshot that was not Running

worker == <<running, terminate, lock, inst, guard, current_mag>>
sink   == <<gp, dev>>
loop   == <<pc, snap, hold_until, next_a, next_rt, elapsed, w, vec, hold_arg,
            inten, gate>>
ctl    == <<cpc, ai, cfg_arg, s>>
hist   == <<seen, hold_src, loop_ops, log, t_ops, fresh>>
vars   == <<worker, sink, loop, ctl, hist>>

\* MovementWorker.__init__ given the ranges and flags of AppConfig c.
InitFields(c) ==
  [ hold_rng                  |-> Cfg[c].hold_seconds_range,
    mag_rng                   |-> Cfg[c].stick_magnitude_range,
    a_int_rng                 |-> Cfg[c].a_interval_range,
    a_hold_rng                |-> Cfg[c].a_hold_seconds_range,
    rt_int_rng                |-> Cfg[c].rt_interval_range,
    rt_inten_rng              |-> Cfg[c].rt_intensity_range,
    rt_hold_rng               |-> Cfg[c].rt_hold_seconds_range,
    loop_tick                 |-> Cfg[c].loop_sleep_seconds,
    enable_a                  |-> Cfg[c].enable_a,
    enable_rt                 |-> Cfg[c].enable_rt,
    allow_diagonals           |-> Cfg[c].allow_diagonals,
    dir_w                     |-> Cfg[c].direction_weights,
    only_actions_while_moving |-> Cfg[c].only_actions_while_moving,
    move_threshold            |-> Cfg[c].move_threshold ]

NoSnap == [local_running |-> FALSE, tick |-> 0, enable_a |-> FALSE,
           enable_rt |-> FALSE, only_while_moving |-> FALSE, move_thresh |-> 0]
NoGate == [ok |-> TRUE, name |-> None, queried |-> FALSE, was |-> TRUE]
NoFresh == [a |-> FALSE, rt |-> FALSE]

\* The state after XboxBackend() and MovementWorker(backend, ...).
Init ==
  /\ running = FALSE
  /\ terminate = FALSE
  /\ lock = "free"
  /\ inst = InitFields(InitCfg)
  /\ guard = ForegroundGuard(TRUE, "blacklist", {}, 150)
  /\ current_mag = 0
  /\ gp = Neutral
  /\ dev = Neutral
  /\ pc = "unstarted"
  /\ snap = NoSnap
  /\ hold_until = 0
  /\ next_a = Inf
  /\ next_rt = Inf
  /\ elapsed = 0
  /\ w = <<>>
  /\ vec = <<>>
  /\ hold_arg = 0
  /\ inten = 0
  /\ gate = NoGate
  /\ cpc = "idle"
  /\ ai = 0
  /\ cfg_arg = "A"
  /\ s = ""
  /\ seen = CfgNames
  /\ hold_src = <<0, 0>>
  /\ loop_ops = <<"", "">>
  /\ log = <<>>
  /\ t_ops = <<>>
  /\ fresh = NoFresh

-----------------------------------------------------------------------------
(* The worker thread: MovementWorker._loop and the sink calls it makes.     *)

\* The largest of a set of numbers.
Largest(S) == CHOOSE m \in S : \A h \in S : h <= m

\* The largest value a relative timestamp can hold.
TimerMax ==
  Largest(UNION {{Cfg[c].hold_seconds_range[2], Cfg[c].a_interval_range[2],
                  Cfg[c].rt_interval_range[2]} : c \in CfgNames})

\* `elapsed` saturates where it exceeds every timestamp and every time one
\* tick's holds can take.
ElapsedMax ==
  Max(TimerMax,
      Largest({Cfg[c].a_hold_seconds_range[2] : c \in CfgNames})
        + Largest({Cfg[c].rt_hold_seconds_range[2] : c \in CfgNames}))

\* d milliseconds pass on the clock (a time.sleep(d) of the worker thread).
Sleep(d) ==
  /\ elapsed' = Min(ElapsedMax, elapsed + d)
  /\ guard' = [guard EXCEPT !.since_check = Min(guard.interval, guard.since_check + d)]

\* `now >= t` for a timestamp t kept relative to now.
Reached(t) == t # Inf /\ t <= 0

\* t - now after now = time.time(), for a timestamp t kept relative to the old now.
Rebase(t) == IF t = Inf THEN Inf ELSE Max(0, t - elapsed)

\* The configs whose field f has value v.
Consistent(f, v) == {c \in CfgNames : Cfg[c][f] = v}

\* The loop's record of its last two sink after one more.
Push(op) == <<loop_ops[2], op>>

\* worker.start(): self._t.start() if the thread is not alive.
start ==
  /\ pc = "unstarted"
  /\ pc' = "L152"
  /\ UNCHANGED <<worker, sink, snap, hold_until, next_a, next_rt, elapsed, w,
                 vec, hold_arg, inten, gate, ctl, hist>>

\* self.b.neutralize() at lines 152, 176 of _loop.
LoopNeutralize(at, to) ==
  /\ pc = at
  /\ gp' = Neutral
  /\ loop_ops' = Push("neutralize")
  /\ pc' = to
  /\ UNCHANGED <<worker, dev, snap, hold_until, next_a, next_rt, elapsed, w,
                 vec, hold_arg, inten, gate, ctl, seen, hold_src, log, t_ops, fresh>>

\* self.b.update() at lines 153, 177, 190 of _loop.
LoopUpdate(at, to) ==
  /\ pc = at
  /\ dev' = gp
  /\ loop_ops' = Push("update")
  /\ pc' = to
  /\ UNCHANGED <<worker, gp, snap, hold_until, next_a, next_rt, elapsed, w,
                 vec, hold_arg, inten, gate, ctl, seen, hold_src, log, t_ops, fresh>>

\* time.sleep(d) at lines 178, 183, 210 of _loop.
LoopSleep(at, d, to) ==
  /\ pc = at
  /\ Sleep(d)
  /\ pc' = to
  /\ UNCHANGED <<running, terminate, lock, inst, current_mag, sink, snap,
                 hold_until, next_a, next_rt, w, vec, hold_arg, inten, gate,
                 ctl, seen, hold_src, loop_ops, log, t_ops, fresh>>

L152 == LoopNeutralize("L152", "L153")
L153 == LoopUpdate("L153", "L154")

\* Variant of L154 that samples the due times of the enabled channels at loop
\* start, as worker_loop of xpad_toggle_move_v2.py does.
L154_ArmsAtStart ==
  /\ pc = "L154"
  /\ elapsed' = 0
  /\ hold_until' = 0
  /\ next_a' \in (IF inst.enable_a THEN Uniform(inst.a_int_rng) ELSE {Inf})
  /\ next_rt' \in (IF inst.enable_rt THEN Uniform(inst.rt_int_rng) ELSE {Inf})
  /\ pc' = "L161"
  /\ UNCHANGED <<worker, sink, snap, w, vec, hold_arg, inten, gate, ctl, hist>>

\* now = time.time(); hold_until = now; next_a = next_rt = now + inf.
L154 ==
  /\ pc = "L154"
  /\ elapsed' = 0
  /\ hold_until' = 0
  /\ next_a' = Inf
  /\ next_rt' = Inf
  /\ pc' = "L161"
  /\ UNCHANGED <<worker, sink, snap, w, vec, hold_arg, inten, gate, ctl, hist>>

\* Variant of L161 without the terminate test: the loop snapshots and goes on.
L161_IgnoresTerminate ==
  /\ pc = "L161"
  /\ lock = "free"
  /\ snap' = [ local_running     |-> running,
               tick              |-> inst.loop_tick,
               enable_a          |-> inst.enable_a,
               enable_rt         |-> inst.enable_rt,
               only_while_moving |-> inst.only_actions_while_moving,
               move_thresh       |-> inst.move_threshold ]
  /\ seen' = CfgNames
  /\ fresh' = IF running THEN fresh ELSE NoFresh
  /\ pc' = "L174"
  /\ UNCHANGED <<worker, sink, hold_until, next_a, next_rt, elapsed, w, vec,
                 hold_arg, inten, gate, ctl, hold_src, loop_ops, log, t_ops>>

\* with self._lock: the terminate test and the snapshot.  On the terminate
\* path the lock stays held until the return of line 165.
L161 ==
  /\ pc = "L161"
  /\ lock = "free"
  /\ IF terminate
     THEN /\ lock' = "loop"
          /\ pc' = "L163"
          /\ UNCHANGED <<snap, seen, fresh>>
     ELSE /\ snap' = [ local_running     |-> running,
                       tick              |-> inst.loop_tick,
                       enable_a          |-> inst.enable_a,
                       enable_rt         |-> inst.enable_rt,
                       only_while_moving |-> inst.only_actions_while_moving,
                       move_thresh       |-> inst.move_threshold ]
          /\ seen' = Consistent("loop_sleep_seconds", inst.loop_tick)
                       \cap Consistent("enable_a", inst.enable_a)
                       \cap Consistent("enable_rt", inst.enable_rt)
                       \cap Consistent("only_actions_while_moving",
                                       inst.only_actions_while_moving)
                       \cap Consistent("move_threshold", inst.move_threshold)
          /\ fresh' = IF running THEN fresh ELSE NoFresh
          /\ pc' = "L174"
          /\ UNCHANGED lock
  /\ UNCHANGED <<running, terminate, inst, guard, current_mag, sink, hold_until,
                 next_a, next_rt, elapsed, w, vec, hold_arg, inten, gate, ctl,
                 hold_src, loop_ops, log, t_ops>>

\* self.b.neutralize() of the terminate path, inside the with block.
L163 ==
  /\ pc = "L163"
  /\ gp' = Neutral
  /\ loop_ops' = Push("neutralize")
  /\ pc' = "L164"
  /\ UNCHANGED <<worker, dev, snap, hold_until, next_a, next_rt, elapsed, w,
                 vec, hold_arg, inten, gate, ctl, seen, hold_src, log, t_ops, fresh>>

\* Variant of L164 that goes round the loop again instead of returning.
L164_NoReturn ==
  /\ pc = "L164"
  /\ dev' = gp
  /\ loop_ops' = Push("update")
  /\ lock' = "free"
  /\ pc' = "L161"
  /\ UNCHANGED <<running, terminate, inst, guard, current_mag, gp, snap,
                 hold_until, next_a, next_rt, elapsed, w, vec, hold_arg, inten,
                 gate, ctl, seen, hold_src, log, t_ops, fresh>>

\* self.b.update(); return: the loop ends and the with block releases the lock.
L164 ==
  /\ pc = "L164"
  /\ dev' = gp
  /\ loop_ops' = Push("update")
  /\ lock' = "free"
  /\ pc' = "done"
  /\ UNCHANGED <<running, terminate, inst, guard, current_mag, gp, snap,
                 hold_until, next_a, next_rt, elapsed, w, vec, hold_arg, inten,
                 gate, ctl, seen, hold_src, log, t_ops, fresh>>

\* self.guard.allow_action(): one step on the guard installed at the call
\* (only the worker thread ever uses a guard once it is installed).
L174 ==
  /\ pc = "L174"
  /\ \E name \in Foreground :
       LET r == allow_action(guard, name)
       IN /\ guard' = r.guard
          /\ gate' = [ ok      |-> r.ok,
                       name    |-> IF r.queried THEN name ELSE None,
                       queried |-> r.queried,
                       was     |-> guard.cached_ok ]
          /\ pc' = IF r.ok THEN "L181" ELSE "L175"
  /\ UNCHANGED <<running, terminate, lock, inst, current_mag, sink, snap,
                 hold_until, next_a, next_rt, elapsed, w, vec, hold_arg, inten,
                 ctl, hist>>

\* The gate denied: self._current_mag = 0.0.
L175 ==
  /\ pc = "L175"
  /\ current_mag' = 0
  /\ gate' = NoGate
  /\ pc' = "L176"
  /\ UNCHANGED <<running, terminate, lock, inst, guard, sink, snap, hold_until,
                 next_a, next_rt, elapsed, w, vec, hold_arg, inten, ctl, hist>>

L176 == LoopNeutralize("L176", "L177")
L177 == LoopUpdate("L177", "L178")
\* Variant of L178 without the continue: the tick goes on to line 181.
L178_FallsThrough == LoopSleep("L178", snap.tick, "L181")

\* time.sleep(tick); continue.
L178 == LoopSleep("L178", snap.tick, "L161")

\* now = time.time(), then the tests of lines 182 and 186.
L181 ==
  /\ pc = "L181"
  /\ elapsed' = 0
  /\ hold_until' = Rebase(hold_until)
  /\ next_a' = Rebase(next_a)
  /\ next_rt' = Rebase(next_rt)
  /\ gate' = NoGate
  /\ pc' = IF ~snap.local_running THEN "L183"
           ELSE IF Reached(hold_until') THEN "L140" ELSE "L201"
  /\ UNCHANGED <<worker, sink, snap, w, vec, hold_arg, inten, ctl, hist>>

L183 == LoopSleep("L183", PauseSleep, "L161")

\* _pick_direction, line 140: w_up, w_right, w_down, w_left = self.dir_w.
L140 ==
  /\ pc = "L140"
  /\ w' = inst.dir_w
  /\ seen' = seen \cap Consistent("direction_weights", inst.dir_w)
  /\ pc' = "L142"
  /\ UNCHANGED <<worker, sink, snap, hold_until, next_a, next_rt, elapsed, vec,
                 hold_arg, inten, gate, ctl, hold_src, loop_ops, log, t_ops, fresh>>

\* _pick_direction, lines 142-147: read self.allow_diagonals, draw base.  A
\* ValueError of random.choices propagates out of _loop: the thread ends.
L142 ==
  /\ pc = "L142"
  /\ LET cand == Candidates(w, inst.allow_diagonals)
     IN IF Choices(cand.w) = {}
        THEN pc' = "raised" /\ vec' = vec
        ELSE pc' = "L148" /\ \E idx \in Choices(cand.w) : vec' = cand.dirs[idx]
  /\ seen' = seen \cap Consistent("allow_diagonals", inst.allow_diagonals)
  /\ UNCHANGED <<worker, sink, snap, hold_until, next_a, next_rt, elapsed, w,
                 hold_arg, inten, gate, ctl, hold_src, loop_ops, log, t_ops, fresh>>

\* _pick_direction, lines 148-149: mag = random.uniform(*self.mag_rng) and the
\* return of (x, y, mag) (x, y in millionths); line 188: self._current_mag = mag.
L148 ==
  /\ pc = "L148"
  /\ \E mag \in Uniform(inst.mag_rng) :
       /\ vec' = <<vec[1] * mag, vec[2] * mag, mag>>
       /\ current_mag' = mag
  /\ seen' = seen \cap Consistent("stick_magnitude_range", inst.mag_rng)
  /\ w' = <<>>
  /\ pc' = "L189"
  /\ UNCHANGED <<running, terminate, lock, inst, guard, sink, snap, hold_until,
                 next_a, next_rt, elapsed, hold_arg, inten, gate, ctl, hold_src,
                 loop_ops, log, t_ops, fresh>>

\* self.b.set_left_stick(x, y).
L189 ==
  /\ pc = "L189"
  /\ gp' = [gp EXCEPT !.x = vec[1], !.y = vec[2]]
  /\ loop_ops' = Push("set_left_stick")
  /\ vec' = <<>>
  /\ pc' = "L190"
  /\ UNCHANGED <<worker, dev, snap, hold_until, next_a, next_rt, elapsed, w,
                 hold_arg, inten, gate, ctl, seen, hold_src, log,
                 t_ops, fresh>>

L190 == LoopUpdate("L190", "L191")

\* hold_until = now + random.uniform(*self.hold_rng).
L191 ==
  /\ pc = "L191"
  /\ hold_until' \in Uniform(inst.hold_rng)
  /\ seen' = seen \cap Consistent("hold_seconds_range", inst.hold_rng)
  /\ pc' = "L192"
  /\ UNCHANGED <<worker, sink, snap, next_a, next_rt, elapsed, w, vec, hold_arg,
                 inten, gate, ctl, hold_src, loop_ops, log, t_ops, fresh>>

\* if next_a == float("inf"): next_a = now + random.uniform(*self.a_int_rng).
L192 ==
  /\ pc = "L192"
  /\ IF next_a = Inf
     THEN /\ next_a' \in Uniform(inst.a_int_rng)
          /\ seen' = seen \cap Consistent("a_interval_range", inst.a_int_rng)
          /\ fresh' = [fresh EXCEPT !.a = TRUE]
     ELSE UNCHANGED <<next_a, seen, fresh>>
  /\ pc' = "L194"
  /\ UNCHANGED <<worker, sink, snap, hold_until, next_rt, elapsed, w, vec,
                 hold_arg, inten, gate, ctl, hold_src, loop_ops, log, t_ops>>

\* if next_rt == float("inf"): next_rt = now + random.uniform(*self.rt_int_rng).
L194 ==
  /\ pc = "L194"
  /\ IF next_rt = Inf
     THEN /\ next_rt' \in Uniform(inst.rt_int_rng)
          /\ seen' = seen \cap Consistent("rt_interval_range", inst.rt_int_rng)
          /\ fresh' = [fresh EXCEPT !.rt = TRUE]
     ELSE UNCHANGED <<next_rt, seen, fresh>>
  /\ pc' = "L201"
  /\ UNCHANGED <<worker, sink, snap, hold_until, next_a, elapsed, w, vec,
                 hold_arg, inten, gate, ctl, hold_src, loop_ops, log, t_ops>>

\* Variant of moving_ok that never blocks.
moving_ok_Always == TRUE

\* moving_ok of lines 197-199.
moving_ok == IF snap.only_while_moving THEN current_mag >= snap.move_thresh ELSE TRUE

\* Variant of L201 that does not test enable_a.
L201_IgnoresEnable ==
  /\ pc = "L201"
  /\ pc' = IF moving_ok /\ Reached(next_a) THEN "L202" ELSE "L205"
  /\ UNCHANGED <<worker, sink, snap, hold_until, next_a, next_rt, elapsed, w,
                 vec, hold_arg, inten, gate, ctl, hist>>

\* if enable_a and moving_ok and now >= next_a.
L201 ==
  /\ pc = "L201"
  /\ pc' = IF snap.enable_a /\ moving_ok /\ Reached(next_a) THEN "L202" ELSE "L205"
  /\ UNCHANGED <<worker, sink, snap, hold_until, next_a, next_rt, elapsed, w,
                 vec, hold_arg, inten, gate, ctl, hist>>

\* The argument of self.b.tap_a(random.uniform(*self.a_hold_rng)).
L202 ==
  /\ pc = "L202"
  /\ hold_arg' \in Uniform(inst.a_hold_rng)
  /\ hold_src' = inst.a_hold_rng
  /\ seen' = seen \cap Consistent("a_hold_seconds_range", inst.a_hold_rng)
  /\ pc' = "tap_a_press"
  /\ UNCHANGED <<worker, sink, snap, hold_until, next_a, next_rt, elapsed, w,
                 vec, inten, gate, ctl, loop_ops, log, t_ops, fresh>>

\* XboxBackend.tap_a: self.gp.press_button(A).
tap_a_press ==
  /\ pc = "tap_a_press"
  /\ gp' = [gp EXCEPT !.a = TRUE]
  /\ loop_ops' = Push("tap_a")
  /\ pc' = "tap_a_update1"
  /\ UNCHANGED <<worker, dev, snap, hold_until, next_a, next_rt, elapsed, w,
                 vec, hold_arg, inten, gate, ctl, seen, hold_src, log, t_ops, fresh>>

\* self.gp.update() inside tap_a / pull_rt.
PadUpdate(at, to) ==
  /\ pc = at
  /\ dev' = gp
  /\ pc' = to
  /\ UNCHANGED <<worker, gp, snap, hold_until, next_a, next_rt, elapsed, w,
                 vec, hold_arg, inten, gate, ctl, hist>>

\* Variant of HoldSleep that holds for what the live config says now.
HoldSleep_Live(h) == Max(0, inst.a_hold_rng[2])

\* time.sleep(max(0.0, hold_seconds)) inside tap_a / pull_rt.
HoldSleep(h) == Max(0, h)

tap_a_update1 == PadUpdate("tap_a_update1", "tap_a_sleep")
tap_a_sleep == LoopSleep("tap_a_sleep", HoldSleep(hold_arg), "tap_a_release")

\* XboxBackend.tap_a: self.gp.release_button(A).
tap_a_release ==
  /\ pc = "tap_a_release"
  /\ gp' = [gp EXCEPT !.a = FALSE]
  /\ pc' = "tap_a_update2"
  /\ UNCHANGED <<worker, dev, snap, hold_until, next_a, next_rt, elapsed, w,
                 vec, hold_arg, inten, gate, ctl, hist>>

tap_a_update2 == PadUpdate("tap_a_update2", "L203")

\* Variant of L203 that leaves the due time as it was.
L203_KeepsDueTime ==
  /\ pc = "L203"
  /\ next_a' = next_a
  /\ seen' = seen \cap Consistent("a_interval_range", inst.a_int_rng)
  /\ hold_arg' = 0
  /\ hold_src' = <<0, 0>>
  /\ fresh' = [fresh EXCEPT !.a = TRUE]
  /\ pc' = "L205"
  /\ UNCHANGED <<worker, sink, snap, hold_until, next_rt, elapsed, w, vec,
                 inten, gate, ctl, loop_ops, log, t_ops>>

\* next_a = now + random.uniform(*self.a_int_rng), after tap_a returned.
L203 ==
  /\ pc = "L203"
  /\ next_a' \in Uniform(inst.a_int_rng)
  /\ seen' = seen \cap Consistent("a_interval_range", inst.a_int_rng)
  /\ hold_arg' = 0
  /\ hold_src' = <<0, 0>>
  /\ fresh' = [fresh EXCEPT !.a = TRUE]
  /\ pc' = "L205"
  /\ UNCHANGED <<worker, sink, snap, hold_until, next_rt, elapsed, w, vec,
                 inten, gate, ctl, loop_ops, log, t_ops>>

\* if enable_rt and moving_ok and now >= next_rt.
L205 ==
  /\ pc = "L205"
  /\ pc' = IF snap.enable_rt /\ moving_ok /\ Reached(next_rt) THEN "L206" ELSE "L210"
  /\ UNCHANGED <<worker, sink, snap, hold_until, next_a, next_rt, elapsed, w,
                 vec, hold_arg, inten, gate, ctl, hist>>

\* inten = random.uniform(*self.rt_inten_rng).
L206 ==
  /\ pc = "L206"
  /\ inten' \in Uniform(inst.rt_inten_rng)
  /\ seen' = seen \cap Consistent("rt_intensity_range", inst.rt_inten_rng)
  /\ pc' = "L207"
  /\ UNCHANGED <<worker, sink, snap, hold_until, next_a, next_rt, elapsed, w,
                 vec, hold_arg, gate, ctl, hold_src, loop_ops, log,
                 t_ops, fresh>>

\* The hold argument of self.b.pull_rt(inten, random.uniform(*self.rt_hold_rng)).
L207 ==
  /\ pc = "L207"
  /\ hold_arg' \in Uniform(inst.rt_hold_rng)
  /\ hold_src' = inst.rt_hold_rng
  /\ seen' = seen \cap Consistent("rt_hold_seconds_range", inst.rt_hold_rng)
  /\ pc' = "pull_rt_set"
  /\ UNCHANGED <<worker, sink, snap, hold_until, next_a, next_rt, elapsed, w,
                 vec, inten, gate, ctl, loop_ops, log, t_ops, fresh>>

\* XboxBackend.pull_rt: self.gp.right_trigger_float(intensity).
pull_rt_set ==
  /\ pc = "pull_rt_set"
  /\ gp' = [gp EXCEPT !.rt = inten]
  /\ loop_ops' = Push("pull_rt")
  /\ pc' = "pull_rt_update1"
  /\ UNCHANGED <<worker, dev, snap, hold_until, next_a, next_rt, elapsed, w,
                 vec, hold_arg, inten, gate, ctl, seen, hold_src, log, t_ops, fresh>>

pull_rt_update1 == PadUpdate("pull_rt_update1", "pull_rt_sleep")
pull_rt_sleep == LoopSleep("pull_rt_sleep", HoldSleep(hold_arg), "pull_rt_zero")

\* XboxBackend.pull_rt: self.gp.right_trigger_float(0.0).
pull_rt_zero ==
  /\ pc = "pull_rt_zero"
  /\ gp' = [gp EXCEPT !.rt = 0]
  /\ pc' = "pull_rt_update2"
  /\ UNCHANGED <<worker, dev, snap, hold_until, next_a, next_rt, elapsed, w,
                 vec, hold_arg, inten, gate, ctl, hist>>

pull_rt_update2 == PadUpdate("pull_rt_update2", "L208")

\* Variant of L208 after which the tick turns to channel A.
L208_ThenChannelA ==
  /\ pc = "L208"
  /\ next_rt' \in Uniform(inst.rt_int_rng)
  /\ seen' = seen \cap Consistent("rt_interval_range", inst.rt_int_rng)
  /\ hold_arg' = 0
  /\ hold_src' = <<0, 0>>
  /\ inten' = 0
  /\ fresh' = [fresh EXCEPT !.rt = TRUE]
  /\ pc' = "L201"
  /\ UNCHANGED <<worker, sink, snap, hold_until, next_a, elapsed, w, vec, gate,
                 ctl, loop_ops, log, t_ops>>

\* next_rt = now + random.uniform(*self.rt_int_rng), after pull_rt returned.
L208 ==
  /\ pc = "L208"
  /\ next_rt' \in Uniform(inst.rt_int_rng)
  /\ seen' = seen \cap Consistent("rt_interval_range", inst.rt_int_rng)
  /\ hold_arg' = 0
  /\ hold_src' = <<0, 0>>
  /\ inten' = 0
  /\ fresh' = [fresh EXCEPT !.rt = TRUE]
  /\ pc' = "L210"
  /\ UNCHANGED <<worker, sink, snap, hold_until, next_a, elapsed, w, vec, gate,
                 ctl, loop_ops, log, t_ops>>

L210 == LoopSleep("L210", snap.tick, "L161")

\* One step of the worker thread.
LoopStep ==
  \/ L152 \/ L153 \/ L154 \/ L161 \/ L163 \/ L164 \/ L174 \/ L175 \/ L176
  \/ L177 \/ L178 \/ L181 \/ L183 \/ L140 \/ L142 \/ L148 \/ L189 \/ L190
  \/ L191 \/ L192 \/ L194 \/ L201 \/ L202 \/ tap_a_press \/ tap_a_update1
  \/ tap_a_sleep \/ tap_a_release \/ tap_a_update2 \/ L203 \/ L205 \/ L206
  \/ L207 \/ pull_rt_set \/ pull_rt_update1 \/ pull_rt_sleep \/ pull_rt_zero
  \/ pull_rt_update2 \/ L208 \/ L210

-----------------------------------------------------------------------------
(* The hotkey thread: toggle, stop, apply_live_config, on_exit.             *)

\* A control-surface call can begin: none is in progress, the message loop
\* still runs, and the run's budget of calls is not used up.
CanCall == cpc = "idle" /\ Len(log) < MaxCalls

\* toggle(), lines 124-126: flip self._running under the lock.
toggle ==
  /\ CanCall
  /\ lock = "free"
  /\ running' = ~running
  /\ s' = IF running' THEN "ON" ELSE "OFF"
  /\ cpc' = "T127"
  /\ log' = Append(log, "toggle")
  /\ t_ops' = <<>>
  /\ UNCHANGED <<terminate, lock, inst, guard, current_mag, sink, loop, ai,
                 cfg_arg, seen, hold_src, loop_ops, fresh>>

\* Variant of T127 that neutralizes whatever the new state.
T127_Always ==
  /\ cpc = "T127"
  /\ cpc' = "T128"
  /\ UNCHANGED <<worker, sink, loop, ai, cfg_arg, s, hist>>

\* toggle(), line 127: if not self._running (read after the lock is released).
T127 ==
  /\ cpc = "T127"
  /\ cpc' = IF ~running THEN "T128" ELSE "idle"
  /\ UNCHANGED <<worker, sink, loop, ai, cfg_arg, s, hist>>

\* toggle(), line 128: self.b.neutralize().
T128 ==
  /\ cpc = "T128"
  /\ gp' = Neutral
  /\ t_ops' = Append(t_ops, "neutralize")
  /\ cpc' = "T129"
  /\ UNCHANGED <<worker, dev, loop, ai, cfg_arg, s, seen, hold_src,
                 loop_ops, log, fresh>>

\* toggle(), line 129: self.b.update().
T129 ==
  /\ cpc = "T129"
  /\ dev' = gp
  /\ t_ops' = Append(t_ops, "update")
  /\ cpc' = "idle"
  /\ UNCHANGED <<worker, gp, loop, ai, cfg_arg, s, seen, hold_src,
                 loop_ops, log, fresh>>

\* Variant of StopBody that sets the terminate flag only.
StopBody_KeepsRunning ==
  /\ lock = "free"
  /\ terminate' = TRUE
  /\ UNCHANGED <<running, lock, inst, guard, current_mag>>

\* The body of stop(): both flags written in one critical section.
StopBody ==
  /\ lock = "free"
  /\ terminate' = TRUE
  /\ running' = FALSE
  /\ UNCHANGED <<lock, inst, guard, current_mag>>

\* worker.stop().
stop ==
  /\ CanCall
  /\ StopBody
  /\ log' = Append(log, "stop")
  /\ UNCHANGED <<sink, loop, cpc, ai, cfg_arg, s, seen, hold_src, loop_ops, t_ops, fresh>>

\* on_exit of xpad_app.py: worker.stop(), then backend.close().
on_exit ==
  /\ CanCall
  /\ StopBody
  /\ log' = Append(log, "exit")
  /\ cpc' = "close_neutralize"
  /\ UNCHANGED <<sink, loop, ai, cfg_arg, s, seen, hold_src, loop_ops,
                 t_ops, fresh>>

\* XboxBackend.close(): self.neutralize().
close_neutralize ==
  /\ cpc = "close_neutralize"
  /\ gp' = Neutral
  /\ cpc' = "close_update"
  /\ UNCHANGED <<worker, dev, loop, ai, cfg_arg, s, hist>>

\* XboxBackend.close(): self.update().
close_update ==
  /\ cpc = "close_update"
  /\ dev' = gp
  /\ cpc' = "close_reset"
  /\ UNCHANGED <<worker, gp, loop, ai, cfg_arg, s, hist>>

\* XboxBackend.close(): self.gp.reset().
close_reset ==
  /\ cpc = "close_reset"
  /\ gp' = Neutral
  /\ cpc' = "close_update2"
  /\ UNCHANGED <<worker, dev, loop, ai, cfg_arg, s, hist>>

\* XboxBackend.close(): the last self.update(); the message loop then ends.
close_update2 ==
  /\ cpc = "close_update2"
  /\ dev' = gp
  /\ cpc' = "exited"
  /\ UNCHANGED <<worker, gp, loop, ai, cfg_arg, s, hist>>

\* The assignments of apply_live_config, lines 92-105, in order: the worker
\* field written and the AppConfig field it is written from.
Assignments ==
  << [to |-> "hold_rng",                  from |-> "hold_seconds_range"],
     [to |-> "mag_rng",                   from |-> "stick_magnitude_range"],
     [to |-> "a_int_rng",                 from |-> "a_interval_range"],
     [to |-> "a_hold_rng",                from |-> "a_hold_seconds_range"],
     [to |-> "rt_int_rng",                from |-> "rt_interval_range"],
     [to |-> "rt_inten_rng",              from |-> "rt_intensity_range"],
     [to |-> "rt_hold_rng",               from |-> "rt_hold_seconds_range"],
     [to |-> "loop_tick",                 from |-> "loop_sleep_seconds"],
     [to |-> "enable_a",                  from |-> "enable_a"],
     [to |-> "enable_rt",                 from |-> "enable_rt"],
     [to |-> "allow_diagonals",           from |-> "allow_diagonals"],
     [to |-> "dir_w",                     from |-> "direction_weights"],
     [to |-> "only_actions_while_moving", from |-> "only_actions_while_moving"],
     [to |-> "move_threshold",            from |-> "move_threshold"] >>

\* apply_live_config(cfg), line 91: with self._lock.
apply_live_config ==
  /\ CanCall
  /\ lock = "free"
  /\ lock' = "ctl"
  /\ \E c \in CfgNames : cfg_arg' = c
  /\ ai' = 1
  /\ cpc' = "apply"
  /\ log' = Append(log, "apply")
  /\ UNCHANGED <<running, terminate, inst, guard, current_mag, sink, loop, s,
                 seen, hold_src, loop_ops, t_ops, fresh>>

\* apply_live_config, lines 92-105: one field assignment.
ApplyAssign ==
  /\ cpc = "apply"
  /\ ai \in 1..Len(Assignments)
  /\ inst' = [inst EXCEPT ![Assignments[ai].to] = Cfg[cfg_arg][Assignments[ai].from]]
  /\ ai' = ai + 1
  /\ UNCHANGED <<running, terminate, lock, guard, current_mag, sink, loop, cpc,
                 cfg_arg, s, hist>>

\* Variant of ApplyGuard that keeps the guard in use.
ApplyGuard_KeepsGuard ==
  /\ cpc = "apply"
  /\ ai = Len(Assignments) + 1
  /\ lock' = "free"
  /\ ai' = 0
  /\ cpc' = "idle"
  /\ UNCHANGED <<running, terminate, inst, guard, current_mag, sink, loop,
                 cfg_arg, s, hist>>

\* Variant of ApplyGuard that also re-initialises the run flags the way
\* __init__ sets them (self._running = False, self._current_mag = 0.0).
ApplyGuard_ResetsRunFlags ==
  /\ cpc = "apply"
  /\ ai = Len(Assignments) + 1
  /\ guard' = ForegroundGuard(Cfg[cfg_arg].guard_enabled, Cfg[cfg_arg].guard_mode,
                              Cfg[cfg_arg].guard_processes,
                              Cfg[cfg_arg].guard_check_ms)
  /\ running' = FALSE
  /\ current_mag' = 0
  /\ lock' = "free"
  /\ ai' = 0
  /\ cpc' = "idle"
  /\ UNCHANGED <<terminate, inst, sink, loop, cfg_arg, s, hist>>

\* apply_live_config, lines 106-111: self.guard = ForegroundGuard(...); the
\* with block ends and the lock is released.
ApplyGuard ==
  /\ cpc = "apply"
  /\ ai = Len(Assignments) + 1
  /\ guard' = ForegroundGuard(Cfg[cfg_arg].guard_enabled, Cfg[cfg_arg].guard_mode,
                              Cfg[cfg_arg].guard_processes,
                              Cfg[cfg_arg].guard_check_ms)
  /\ lock' = "free"
  /\ ai' = 0
  /\ cpc' = "idle"
  /\ UNCHANGED <<running, terminate, inst, current_mag, sink, loop, cfg_arg, s,
                 hist>>

\* One step of the hotkey thread.
CtlStep ==
  \/ toggle \/ T127 \/ T128 \/ T129 \/ stop \/ on_exit \/ close_neutralize
  \/ close_update \/ close_reset \/ close_update2 \/ apply_live_config
  \/ ApplyAssign \/ ApplyGuard

-----------------------------------------------------------------------------
Next == start \/ LoopStep \/ CtlStep

Spec == Init /\ [][Next]_vars

-----------------------------------------------------------------------------
(* Properties.                                                              *)

\* The calls of the log.
Called(op) == \E i \in 1..Len(log) : log[i] = op
LastCall == IF log = <<>> THEN "none" ELSE log[Len(log)]

\* C1: toggle() only flips between Stopped and Running: once stop() has set
\* the terminate flag, a toggle() changes neither the running flag nor the
\* terminate flag.
C1_ToggleIgnoredWhileTerminating ==
  [][(terminate /\ toggle) => (running' = running /\ terminate' = terminate)]_vars

\* The positions of the loop after it has seen the terminate flag.
TermPcs == {"L163", "L164", "done"}

\* C2: Terminating is absorbing.  No step of any thread clears the terminate
\* flag, and once the loop has seen it in its snapshot the loop only runs its
\* cleanup (neutralize, update) and ends: no tick, no sample, no sleep, no
\* other sink call, and nothing at all once it has returned.
C2_TerminatingAbsorbing ==
  [][ /\ terminate => terminate'
      /\ pc \in TermPcs =>
           /\ pc' \in TermPcs
           /\ UNCHANGED <<snap, hold_until, next_a, next_rt, elapsed, current_mag,
                          w, vec, hold_arg, inten, gate>>
           /\ loop_ops' \in {loop_ops, Push("neutralize"), Push("update")}
      /\ pc = "done" => UNCHANGED <<loop, loop_ops, fresh>> ]_vars

\* C2 witness: the loop has ended on Terminating, and a toggle() made after
\* the stop() has returned.
C2_Witness ==
  /\ pc = "done"
  /\ terminate
  /\ cpc = "idle"
  /\ log = <<"stop", "toggle">>

\* C3: stop() is idempotent and callable from any RunState.  A stop() sets
\* the terminate flag and clears the running flag in one step, makes no sink
\* call (close() is on_exit's), and a stop() made when both are already so
\* changes nothing.
C3_StopIdempotent ==
  [][stop => /\ terminate' /\ ~running'
             /\ UNCHANGED <<sink, cpc>>
             /\ (terminate /\ ~running) => UNCHANGED <<worker, sink, loop, cpc>>]_vars

\* C3 witness: stop() was called a second time, the loop still in a tick.
C3_Witness ==
  /\ log = <<"stop", "stop">>
  /\ terminate /\ ~running
  /\ cpc = "idle"
  /\ pc \notin {"unstarted", "L163", "L164", "done"}

\* C4: once a toggle() into Stopped has returned, the sink is neutral, and it
\* stays so until the next toggle().
C4_NeutralAfterPause ==
  (cpc = "idle" /\ LastCall = "toggle" /\ s = "OFF")
    => (gp = Neutral /\ dev = Neutral)

\* C5: a toggle() into Stopped makes exactly one neutralize call, followed by
\* an update, before it returns; a toggle() into Running makes no sink call.
\* On a fresh worker the first toggle() leads to Running and the second back
\* to Stopped.
C5_ToggleNeutralizesOnce ==
  /\ LastCall = "toggle" =>
       /\ s = (IF running THEN "ON" ELSE "OFF")
       /\ s = "ON" => t_ops = <<>> /\ cpc \in {"T127", "idle"}
       /\ (s = "OFF" /\ cpc = "idle") => t_ops = <<"neutralize", "update">>
       /\ (s = "OFF" /\ cpc # "idle") =>
            \/ cpc \in {"T127", "T128"} /\ t_ops = <<>>
            \/ cpc = "T129" /\ t_ops = <<"neutralize">>
  /\ log = <<"toggle">> => running
  /\ log = <<"toggle", "toggle">> => ~running

\* C5 witness: the second toggle() of a fresh worker has returned, the loop
\* running beside it.
C5_Witness ==
  /\ log = <<"toggle", "toggle">>
  /\ cpc = "idle"
  /\ pc \notin {"unstarted", "done"}
  /\ t_ops = <<"neutralize", "update">>

\* C6: all parameter values the loop uses within one tick come from one
\* ParameterSet: some config agrees with every value read since the snapshot.
C6_TickReadsOneParameterSet == seen # {}

\* The steps of a tap_a or pull_rt call in progress, and each one's successor.
HoldPcs == {"tap_a_press", "tap_a_update1", "tap_a_sleep", "tap_a_release",
            "tap_a_update2", "pull_rt_set", "pull_rt_update1", "pull_rt_sleep",
            "pull_rt_zero", "pull_rt_update2"}
HoldSucc(p) ==
  CASE p = "tap_a_press"     -> "tap_a_update1"
    [] p = "tap_a_update1"   -> "tap_a_sleep"
    [] p = "tap_a_sleep"     -> "tap_a_release"
    [] p = "tap_a_release"   -> "tap_a_update2"
    [] p = "tap_a_update2"   -> "L203"
    [] p = "pull_rt_set"     -> "pull_rt_update1"
    [] p = "pull_rt_update1" -> "pull_rt_sleep"
    [] p = "pull_rt_sleep"   -> "pull_rt_zero"
    [] p = "pull_rt_zero"    -> "pull_rt_update2"
    [] p = "pull_rt_update2" -> "L208"

\* C7: an action already sampled runs to completion under the old values.
\* During a tap_a or pull_rt the duration and intensity stay the ones drawn
\* from the Range installed when they were sampled, whatever is installed
\* meanwhile; the hold sleeps exactly that duration, the trigger is pulled to
\* that intensity, and the call goes through its steps in order, once.
C7_HoldCompletesUnderOldValues ==
  [][(pc \in HoldPcs) =>
       (/\ hold_arg \in Uniform(hold_src)
        /\ pc' \in {pc, HoldSucc(pc)}
        /\ pc' \in HoldPcs => UNCHANGED <<hold_arg, hold_src, inten, fresh>>
        /\ (pc \in {"tap_a_sleep", "pull_rt_sleep"} /\ pc' # pc) =>
             elapsed' = elapsed + hold_arg
        /\ (pc = "pull_rt_set" /\ pc' # pc) => (gp.rt)' = inten)]_vars

\* C7 witness: a tap is about to hold for a duration the reload that has just
\* returned no longer allows.
C7_Witness ==
  /\ pc = "tap_a_sleep"
  /\ cpc = "idle"
  /\ LastCall = "apply"
  /\ hold_arg > inst.a_hold_rng[2]

\* Guard g has the configuration ForegroundGuard builds from AppConfig c.
GuardBuiltFrom(g, c) ==
  LET f == ForegroundGuard(Cfg[c].guard_enabled, Cfg[c].guard_mode,
                           Cfg[c].guard_processes, Cfg[c].guard_check_ms)
  IN /\ g.enabled = f.enabled
     /\ g.mode = f.mode
     /\ g.processes = f.processes
     /\ g.interval = f.interval

\* What the gate configuration of AppConfig c decides for foreground `name`.
Decision(c, name) ==
  LET procs  == {Lower(Strip(q)) : q \in Cfg[c].guard_processes}
      in_set == Lower(IF name = None THEN "" ELSE name) \in procs
  IN IF Lower(Strip(Cfg[c].guard_mode)) = "blacklist" THEN ~in_set ELSE in_set

\* A reload has been made and none is in progress.
Reloaded == Called("apply") /\ cpc # "apply"

\* C8: after apply_live_config(newSet) has returned, every installed field
\* is newSet's and the guard in use is one built from newSet's gate
\* configuration; a gate evaluation the loop then makes is decided by newSet.
C8_ReloadInstallsNewSet ==
  /\ [](Reloaded => (inst = InitFields(cfg_arg) /\ GuardBuiltFrom(guard, cfg_arg)))
  /\ [][(Reloaded /\ L174 /\ gate'.queried) =>
          gate'.ok = Decision(cfg_arg, gate'.name)]_vars

\* C8 witness: after the reload to B (whitelist) the loop's gate evaluation
\* queried the foreground and denied.
C8_Witness ==
  /\ log = <<"apply">>
  /\ cfg_arg = "B"
  /\ cpc = "idle"
  /\ inst = InitFields("B")
  /\ gate.queried /\ ~gate.ok

\* A control-surface call that has begun runs on.
CtlRun ==
  \/ T127 \/ T128 \/ T129 \/ close_neutralize \/ close_update \/ close_reset
  \/ close_update2 \/ ApplyAssign \/ ApplyGuard

\* Both threads are scheduled; sink calls and sleeps return.
LiveSpec == Spec /\ WF_vars(LoopStep) /\ WF_vars(CtlRun)

\* C9: after stop() the running loop eventually exits; its next snapshot
\* takes the terminate path; its last two sink calls are neutralize and
\* update; a tap_a or pull_rt in progress when stop() lands runs through all
\* its steps.
C9_LoopExitsAfterStop ==
  /\ (terminate /\ pc # "unstarted") ~> (pc = "done")
  /\ [](pc = "done" => loop_ops = <<"neutralize", "update">>)
  /\ [][(pc = "L161" /\ terminate /\ pc' # pc) => pc' = "L163"]_vars
  /\ [][(pc \in HoldPcs /\ terminate) => pc' \in {pc, HoldSucc(pc)}]_vars

\* C9 witness: the loop has exited after a stop() that landed during a tick.
C9_Witness ==
  /\ pc = "done"
  /\ log = <<"toggle", "stop">>
  /\ snap.local_running
  /\ loop_ops = <<"neutralize", "update">>

\* C10: a non-cached evaluation whose foreground query returns None answers
\* with the previously cached decision.
C10_FailedQueryKeepsCachedDecision ==
  (gate.queried /\ gate.name = None) => gate.ok = gate.was

-----------------------------------------------------------------------------
(* ForegroundGuard on its own: every guard the constructor can build, called *)
(* at any times with any foreground.  cfg_arg holds the constructor's       *)
(* arguments, `elapsed` the time since the last foreground query (the        *)
(* clock's own count, beside the guard's _last_check), `gate` the last call. *)

GuardModes == {"blacklist", "whitelist", "Blacklist", ""}
GuardProcesses == {{}, {" "}, {"Game.exe"}, {"game.EXE", "other.exe"}}
GuardCheckMs == {20, 60}
GuardWaits == {10, 30}

GuardArgs ==
  [enabled : BOOLEAN, mode : GuardModes, processes : GuardProcesses,
   check_ms : GuardCheckMs]

\* ForegroundGuard(**args), not yet called.
GuardInit ==
  /\ cfg_arg \in GuardArgs
  /\ guard = ForegroundGuard(cfg_arg.enabled, cfg_arg.mode, cfg_arg.processes,
                             cfg_arg.check_ms)
  /\ gate = NoGate
  /\ elapsed = ElapsedMax
  /\ running = FALSE /\ terminate = FALSE /\ lock = "free"
  /\ inst = InitFields(InitCfg)
  /\ current_mag = 0
  /\ gp = Neutral /\ dev = Neutral
  /\ pc = "unstarted" /\ snap = NoSnap
  /\ hold_until = 0 /\ next_a = Inf /\ next_rt = Inf
  /\ w = <<>> /\ vec = <<>> /\ hold_arg = 0 /\ inten = 0
  /\ cpc = "idle" /\ ai = 0 /\ s = ""
  /\ seen = CfgNames /\ hold_src = <<0, 0>> /\ loop_ops = <<"", "">>
  /\ log = <<>> /\ t_ops = <<>>
  /\ fresh = NoFresh

\* One guard.allow_action() call, the foreground being `name` (recorded in
\* gate.name whether the call asks for it or not).
GuardCall ==
  /\ \E name \in Foreground :
       LET r == allow_action(guard, name)
       IN /\ guard' = r.guard
          /\ gate' = [ ok      |-> r.ok,
                       name    |-> name,
                       queried |-> r.queried,
                       was     |-> guard.cached_ok ]
          /\ elapsed' = IF r.queried THEN 0 ELSE elapsed
  /\ UNCHANGED <<running, terminate, lock, inst, current_mag, sink, pc, snap,
                 hold_until, next_a, next_rt, w, vec, hold_arg, inten, ctl,
                 hist>>

\* Time passes between two calls.
GuardWait ==
  /\ \E d \in GuardWaits : Sleep(d)
  /\ UNCHANGED <<running, terminate, lock, inst, current_mag, sink, pc, snap,
                 hold_until, next_a, next_rt, w, vec, hold_arg, inten, gate,
                 ctl, hist>>

GuardNext == GuardCall \/ GuardWait

GuardSpec == GuardInit /\ [][GuardNext]_vars

\* The guard gates: it is enabled and its identifier set is not empty.
Gating == guard.enabled /\ guard.processes # {}

\* The effective check interval of the constructor's check_ms.
EffectiveInterval == IF cfg_arg.check_ms >= MinCheckMs THEN cfg_arg.check_ms ELSE MinCheckMs

\* C11: a gating guard queries the foreground at most once per effective
\* interval max(50 ms, check_ms).  A call made less than that after the last
\* query returns the cached boolean, queries nothing and leaves the guard as
\* it is; a call that queries stores its answer in the cache and restarts the
\* interval.
C11_OneQueryPerInterval ==
  [][(GuardCall /\ Gating) =>
       /\ gate'.queried <=> elapsed >= EffectiveInterval
       /\ ~gate'.queried => (gate'.ok = guard.cached_ok /\ guard' = guard)
       /\ gate'.queried => /\ guard'.cached_ok = gate'.ok
                           /\ guard'.since_check = 0
                           /\ elapsed' = 0]_vars

\* C11 witness: 30 ms after a query that denied, a guard configured with
\* check_ms = 20 answers from its cache.
C11_Witness ==
  /\ Gating
  /\ cfg_arg.check_ms = 20
  /\ elapsed = 30
  /\ ~gate.queried /\ ~gate.ok /\ ~gate.was

\* The configured set has an entry that equals `name`, letter case and
\* surrounding blanks of the entry aside.
Member(name) == \E p \in cfg_arg.processes : Lower(Strip(p)) = Lower(name)

\* The guard was configured as a blacklist (the default when mode is empty).
Blacklist == Lower(Strip(cfg_arg.mode)) \in {"blacklist", ""}

\* C12: a query that obtains an identifier permits, in blacklist mode, iff the
\* lower-cased identifier is not in the lower-cased set, and in whitelist mode
\* iff it is.
C12_ModePolarity ==
  [][(GuardCall /\ gate'.queried /\ gate'.name # None) =>
       (gate'.ok <=> IF Blacklist THEN ~Member(gate'.name) ELSE Member(gate'.name))]_vars

\* C12 witness: a whitelist of game.EXE has just permitted Game.exe.
C12_Witness ==
  /\ ~Blacklist
  /\ "game.EXE" \in cfg_arg.processes
  /\ gate.queried /\ gate.name = "Game.exe" /\ gate.ok

\* C13: a guard that is disabled, or whose identifier set is empty, returns
\* true on every call, queries nothing and stays as it is.
C13_NoGating ==
  [][(GuardCall /\ (~cfg_arg.enabled \/ \A p \in cfg_arg.processes : Strip(p) = "")) =>
       (gate'.ok /\ ~gate'.queried /\ guard' = guard)]_vars

\* C13 witness: a disabled whitelist of Game.exe has been called, long after
\* construction, with other.exe in the foreground.
C13_Witness ==
  /\ ~cfg_arg.enabled
  /\ ~Blacklist
  /\ cfg_arg.processes = {"Game.exe"}
  /\ elapsed = ElapsedMax
  /\ guard.since_check = guard.interval
  /\ gate.ok /\ ~gate.queried
  /\ gate.name = "other.exe"

-----------------------------------------------------------------------------
(* The worker beside a sink whose calls can raise.  _loop has no try block: *)
(* an exception leaves the thread function, and a with block it passes       *)
(* releases the lock.                                                        *)

\* The positions of the loop whose step is a call of the sink (of the pad,
\* inside tap_a and pull_rt).
SinkPcs == {"L152", "L153", "L163", "L164", "L176", "L177", "L189", "L190",
            "tap_a_press", "tap_a_update1", "tap_a_release", "tap_a_update2",
            "pull_rt_set", "pull_rt_update1", "pull_rt_zero", "pull_rt_update2"}

\* Variant of SinkRaise in which the loop swallows the error and goes on with
\* the next tick.
SinkRaise_Continue ==
  /\ pc \in SinkPcs
  /\ pc' = "L161"
  /\ lock' = IF lock = "loop" THEN "free" ELSE lock
  /\ loop_ops' = Push("error")
  /\ UNCHANGED <<running, terminate, inst, guard, current_mag, sink, snap,
                 hold_until, next_a, next_rt, elapsed, w, vec, hold_arg, inten,
                 gate, ctl, seen, hold_src, log, t_ops, fresh>>

\* The sink call the loop is about to make raises: the exception propagates
\* out of _loop and the thread ends.
SinkRaise ==
  /\ pc \in SinkPcs
  /\ pc' = "raised"
  /\ lock' = IF lock = "loop" THEN "free" ELSE lock
  /\ loop_ops' = Push("error")
  /\ UNCHANGED <<running, terminate, inst, guard, current_mag, sink, snap,
                 hold_until, next_a, next_rt, elapsed, w, vec, hold_arg, inten,
                 gate, ctl, seen, hold_src, log, t_ops, fresh>>

FaultNext == Next \/ SinkRaise

FaultSpec == Init /\ [][FaultNext]_vars

\* C14: an error raised by a sink call of the loop ends the loop.  The call is
\* not made again, no other sink call follows (no cleanup neutralize either),
\* and the loop runs no further step: no tick, no sample, no sleep.
C14_SinkErrorEndsLoop ==
  [][(loop_ops[2] = "error") =>
       UNCHANGED <<loop, loop_ops, current_mag, seen, hold_src, fresh>>]_vars

\* C14 witness: the update inside a tap raised with the button down; the
\* button stays down, and a toggle() made afterwards has returned.
C14_Witness ==
  /\ pc = "raised"
  /\ loop_ops = <<"tap_a", "error">>
  /\ gp.a
  /\ LastCall = "toggle"
  /\ cpc = "idle"

-----------------------------------------------------------------------------
(* The worker under one fixed AppConfig: hold 0-0, magnitude 1-1, uniform   *)
(* weights, no diagonals, installed by main (MovementWorker(...) and         *)
(* apply_live_config(cfg)) and never reloaded.  The enable flags and the     *)
(* guard's enabled flag are whatever the INI says.                            *)

ScenarioFields(enable_a, enable_rt) ==
  [ hold_rng                  |-> <<0, 0>>,
    mag_rng                   |-> <<1000, 1000>>,
    a_int_rng                 |-> <<30, 30>>,
    a_hold_rng                |-> <<30, 30>>,
    rt_int_rng                |-> <<60, 60>>,
    rt_inten_rng              |-> <<600, 600>>,
    rt_hold_rng               |-> <<30, 30>>,
    loop_tick                 |-> 30,
    enable_a                  |-> enable_a,
    enable_rt                 |-> enable_rt,
    allow_diagonals           |-> FALSE,
    dir_w                     |-> <<1, 1, 1, 1>>,
    only_actions_while_moving |-> FALSE,
    move_threshold            |-> 100 ]

ScenarioInit ==
  /\ \E ea \in BOOLEAN, er \in BOOLEAN : inst = ScenarioFields(ea, er)
  /\ \E en \in BOOLEAN : guard = ForegroundGuard(en, "blacklist", {"Game.exe"}, 150)
  /\ running = FALSE /\ terminate = FALSE /\ lock = "free"
  /\ current_mag = 0
  /\ gp = Neutral /\ dev = Neutral
  /\ pc = "unstarted" /\ snap = NoSnap
  /\ hold_until = 0 /\ next_a = Inf /\ next_rt = Inf /\ elapsed = 0
  /\ w = <<>> /\ vec = <<>> /\ hold_arg = 0 /\ inten = 0 /\ gate = NoGate
  /\ cpc = "idle" /\ ai = 0 /\ cfg_arg = "A" /\ s = ""
  /\ seen = CfgNames /\ hold_src = <<0, 0>> /\ loop_ops = <<"", "">>
  /\ log = <<>> /\ t_ops = <<>>
  /\ fresh = NoFresh

ScenarioNext == start \/ LoopStep \/ toggle \/ T127 \/ T128 \/ T129 \/ stop

ScenarioSpec == ScenarioInit /\ [][ScenarioNext]_vars

\* Both channels are disabled and the gate is disabled.
ChannelsOff == ~inst.enable_a /\ ~inst.enable_rt /\ ~guard.enabled

\* The positions of a tick after its set_left_stick.
AfterStickPcs == {"L190", "L191", "L192", "L194", "L201", "L202", "L203",
                  "L205", "L206", "L207", "L208", "L210"} \cup HoldPcs

Abs(n) == IF n < 0 THEN -n ELSE n

\* C15: with hold 0-0, magnitude 1-1, both channels and the gate disabled and
\* no diagonals, every tick of the running worker sets the stick exactly once,
\* to a vector of length 1 (one component 0, the other +-1, in millionths),
\* and makes no tap_a or pull_rt call.  Whatever the config, a channel whose
\* enable flag is false in the tick's snapshot gets no call in that tick.
C15_ScenarioTicks ==
  /\ [][(ChannelsOff /\ pc = "L174" /\ snap.local_running /\ pc' # pc) =>
          pc' = "L181"]_vars
  /\ [][(ChannelsOff /\ pc = "L181" /\ snap.local_running /\ pc' # pc) =>
          pc' = "L140"]_vars
  /\ [][(ChannelsOff /\ pc = "L189" /\ pc' # pc) =>
          /\ (gp.x)' * (gp.y)' = 0
          /\ Abs((gp.x)') + Abs((gp.y)') = 1000000]_vars
  /\ [][(pc \in AfterStickPcs) => pc' \notin {"L140", "L142", "L148", "L189"}]_vars
  /\ [](ChannelsOff => (pc \notin HoldPcs /\ ~gp.a /\ gp.rt = 0))
  /\ [](pc \in {"L202", "tap_a_press", "tap_a_update1", "tap_a_sleep",
                "tap_a_release", "tap_a_update2", "L203"} => snap.enable_a)
  /\ [](pc \in {"L206", "L207", "pull_rt_set", "pull_rt_update1",
                "pull_rt_sleep", "pull_rt_zero", "pull_rt_update2", "L208"}
          => snap.enable_rt)

\* C15 witness: with everything off, a later tick of the running worker is
\* about to move the stick from one unit vector to another.
C15_Witness ==
  /\ ChannelsOff
  /\ running
  /\ pc = "L189"
  /\ gp.x * gp.y = 0 /\ Abs(gp.x) + Abs(gp.y) = 1000000
  /\ <<vec[1], vec[2]>> # <<gp.x, gp.y>>
  /\ dev = gp

-----------------------------------------------------------------------------
(* _pick_direction on its own: called again and again on a worker built     *)
(* with any direction weights of PickWeights, either diagonal flag and a     *)
(* magnitude range of PickMagRanges.  At "L189" vec holds the returned        *)
(* (x, y, mag).  Magnitudes are small so that squares stay within TLC's      *)
(* integers.                                                                  *)

PickWeights == {0, 1, 2}
PickMagRanges == {<<0, 0>>, <<1, 1>>, <<20, 20>>, <<1, 20>>}

PickInit ==
  /\ \E dw \in [1..4 -> PickWeights], d \in BOOLEAN, mr \in PickMagRanges :
       inst = [ScenarioFields(FALSE, FALSE) EXCEPT
                 !.dir_w = dw, !.allow_diagonals = d, !.mag_rng = mr]
  /\ pc = "L140"
  /\ guard = ForegroundGuard(TRUE, "blacklist", {}, 150)
  /\ running = TRUE /\ terminate = FALSE /\ lock = "free"
  /\ current_mag = 0
  /\ gp = Neutral /\ dev = Neutral
  /\ snap = NoSnap
  /\ hold_until = 0 /\ next_a = Inf /\ next_rt = Inf /\ elapsed = 0
  /\ w = <<>> /\ vec = <<>> /\ hold_arg = 0 /\ inten = 0 /\ gate = NoGate
  /\ cpc = "idle" /\ ai = 0 /\ cfg_arg = "A" /\ s = ""
  /\ seen = CfgNames /\ hold_src = <<0, 0>> /\ loop_ops = <<"", "">>
  /\ log = <<>> /\ t_ops = <<>>
  /\ fresh = NoFresh

\* _pick_direction has returned; it is called again.
PickReturn ==
  /\ pc = "L189"
  /\ pc' = "L140"
  /\ vec' = <<>>
  /\ UNCHANGED <<worker, sink, snap, hold_until, next_a, next_rt, elapsed, w,
                 hold_arg, inten, gate, ctl, hist>>

PickNext == L140 \/ L142 \/ L148 \/ PickReturn

PickSpec == PickInit /\ [][PickNext]_vars

\* The candidates _pick_direction draws from once it has read the weights.
Cand == Candidates(w, inst.allow_diagonals)

AllZero == \A i \in 1..4 : w[i] = 0

\* C16: _pick_direction never selects a candidate of weight zero while some
\* weight is positive; when the four weights are all zero it selects
\* uniformly, every candidate being selectable, and raises no error, with and
\* without diagonals.
C16_ZeroWeightFallback ==
  /\ pc # "raised"
  /\ (pc = "L142" /\ ~AllZero) => \A idx \in Choices(Cand.w) : Cand.w[idx] > 0
  /\ (pc = "L142" /\ AllZero) => Choices(Cand.w) = 1..Len(Cand.dirs)

\* C17: the candidates are the 4 cardinal unit vectors, in the order up,
\* right, down, left of the weights, and with allow_diagonals the 4 diagonals
\* after them; a cardinal has its configured weight, a diagonal the mean of
\* the four, or 1.0 when the four are all zero (weights times 4).
C17_CandidateSet ==
  pc = "L142" =>
    /\ Len(Cand.dirs) = (IF inst.allow_diagonals THEN 8 ELSE 4)
    /\ Len(Cand.w) = Len(Cand.dirs)
    /\ SubSeq(Cand.dirs, 1, 4) = << <<0, 1000>>, <<1000, 0>>, <<0, -1000>>, <<-1000, 0>> >>
    /\ \A i \in 1..4 : Cand.w[i] = 4 * inst.dir_w[i]
    /\ inst.allow_diagonals =>
         /\ {Cand.dirs[j] : j \in 5..8}
              = {<<x, y>> : x \in {707, -707}, y \in {707, -707}}
         /\ \A j \in 5..8 :
              Cand.w[j] = IF AllZero THEN 4
                          ELSE inst.dir_w[1] + inst.dir_w[2] + inst.dir_w[3] + inst.dir_w[4]

\* C17 witness: with all four weights zero and diagonals on, a diagonal has
\* been drawn.
C17_Witness ==
  /\ pc = "L148"
  /\ inst.allow_diagonals
  /\ w = <<0, 0, 0, 0>>
  /\ vec = <<707, -707>>

\* C20: with a magnitude range (m, m), _pick_direction returns magnitude m
\* and a vector (dx, dy) with dx * dx + dy * dy = m * m, whichever of the 8
\* candidates was drawn (dx, dy in thousandths of the unit of m).
C20_DegenerateMagnitudeNorm ==
  (pc = "L189" /\ inst.mag_rng[1] = inst.mag_rng[2]) =>
    /\ vec[3] = inst.mag_rng[1]
    /\ vec[1] * vec[1] + vec[2] * vec[2] = (1000 * vec[3]) * (1000 * vec[3])

-----------------------------------------------------------------------------
(* The INI parsers _parse_range and _parse_weights of config.py.  A string  *)
(* is a sequence of characters, "nan" standing for those three letters; a    *)
(* float is a record: an integer value, or NaN.  In this specification `s`   *)
(* is the parser's argument s, cfg_arg the clamp ( <<>> for None), vec what  *)
(* _parse_range returned, and the weights _parse_weights returned are given  *)
(* to the worker as direction_weights, for _pick_direction to draw with.     *)

\* Longest range string tried.
MaxLen == 4

RangeChars == {"0", "1", "2", " ", "-", ",", "nan"}
RangeStrings == UNION {[1..n -> RangeChars] : n \in 0..MaxLen}
Clamps == {<<>>, <<0, 1>>}

WeightFields == {<<"0">>, <<"1">>, <<"-", "1">>, <<" ", "2">>, <<"x">>, <<>>}
FieldCounts == {3, 4, 5}

RECURSIVE Join(_)
Join(fields) ==
  IF Len(fields) = 0 THEN <<>>
  ELSE IF Len(fields) = 1 THEN fields[1]
  ELSE fields[1] \o <<",">> \o Join(Tail(fields))

WeightStrings == {Join(f) : f \in UNION {[1..n -> WeightFields] : n \in FieldCounts}}

NaN == [nan |-> TRUE, v |-> 0]
Num(n) == [nan |-> FALSE, v |-> n]

\* a < b on floats: false when either is NaN.
Lt(a, b) == ~a.nan /\ ~b.nan /\ a.v < b.v
Le(a, b) == ~a.nan /\ ~b.nan /\ a.v <= b.v

\* Python's min(a, b) and max(a, b): a unless b is smaller (larger).
PyMin(a, b) == IF Lt(b, a) THEN b ELSE a
PyMax(a, b) == IF Lt(a, b) THEN b ELSE a

Contains(str, c) == \E i \in 1..Len(str) : str[i] = c
IndexOf(str, c) == CHOOSE i \in 1..Len(str) : str[i] = c /\ \A j \in 1..(i - 1) : str[j] # c

\* str.split(c, 1) of a string that contains c.
Split1(str, c) ==
  <<SubSeq(str, 1, IndexOf(str, c) - 1), SubSeq(str, IndexOf(str, c) + 1, Len(str))>>

\* str.split(c).
RECURSIVE Split(_, _)
Split(str, c) ==
  IF ~Contains(str, c) THEN <<str>>
  ELSE <<Split1(str, c)[1]>> \o Split(Split1(str, c)[2], c)

\* str.strip() and str.replace(" ", "") on character sequences.
RECURSIVE StripSeq(_)
StripSeq(str) ==
  IF str # <<>> /\ Head(str) = " " THEN StripSeq(Tail(str))
  ELSE IF str # <<>> /\ str[Len(str)] = " " THEN StripSeq(SubSeq(str, 1, Len(str) - 1))
  ELSE str
RemoveSpaces(str) == SelectSeq(str, LAMBDA c : c # " ")

Digits == {"0", "1", "2"}
DigitValue(c) == CASE c = "0" -> 0 [] c = "1" -> 1 [] c = "2" -> 2

RECURSIVE Decimal(_)
Decimal(str) ==
  IF str = <<>> THEN 0
  ELSE 10 * Decimal(SubSeq(str, 1, Len(str) - 1)) + DigitValue(str[Len(str)])

\* float(str): blanks round it dropped, an optional sign, then digits or nan;
\* anything else is a ValueError (ok = FALSE).
Float(str) ==
  LET t    == StripSeq(str)
      neg  == t # <<>> /\ Head(t) = "-"
      body == IF neg THEN Tail(t) ELSE t
  IN IF body = <<"nan">> THEN [ok |-> TRUE, f |-> NaN]
     ELSE IF body # <<>> /\ \A i \in 1..Len(body) : body[i] \in Digits
     THEN [ok |-> TRUE, f |-> Num(IF neg THEN -Decimal(body) ELSE Decimal(body))]
     ELSE [ok |-> FALSE, f |-> NaN]

\* _parse_range(s, clamp): the pair (lo, hi), or <<>> for a ValueError.
parse_range(str, clamp) ==
  LET raw == RemoveSpaces(StripSeq(str))
      ab  == IF Contains(raw, "-") THEN Split1(raw, "-")
             ELSE IF Contains(raw, ",") THEN Split1(raw, ",")
             ELSE <<raw, raw>>
      a   == Float(ab[1])
      b   == Float(ab[2])
      inv == Lt(b.f, a.f)
      lo  == IF inv THEN b.f ELSE a.f
      hi  == IF inv THEN a.f ELSE b.f
  IN IF ~a.ok \/ ~b.ok THEN <<>>
     ELSE IF clamp = <<>> THEN <<lo, hi>>
     ELSE <<PyMax(Num(clamp[1]), PyMin(Num(clamp[2]), lo)),
            PyMax(Num(clamp[1]), PyMin(Num(clamp[2]), hi))>>

\* _parse_weights(s): the four weights; (1, 1, 1, 1) for a list that is
\* malformed or all zero.
parse_weights(str) ==
  LET parts == [i \in 1..Len(Split(str, ",")) |-> Float(StripSeq(Split(str, ",")[i]))]
  IN IF \E i \in 1..Len(parts) : ~parts[i].ok THEN <<1, 1, 1, 1>>
     ELSE IF Len(parts) # 4 THEN <<1, 1, 1, 1>>
     ELSE IF \A i \in 1..4 : parts[i].f.v = 0 THEN <<1, 1, 1, 1>>
     ELSE [i \in 1..4 |-> parts[i].f.v]

ParseInit ==
  /\ \/ pc = "parse_range" /\ s \in RangeStrings /\ cfg_arg \in Clamps
     \/ pc = "parse_weights" /\ s \in WeightStrings /\ cfg_arg = <<>>
  /\ \E d \in BOOLEAN : inst = [ScenarioFields(FALSE, FALSE) EXCEPT !.allow_diagonals = d]
  /\ guard = ForegroundGuard(TRUE, "blacklist", {}, 150)
  /\ running = TRUE /\ terminate = FALSE /\ lock = "free"
  /\ current_mag = 0
  /\ gp = Neutral /\ dev = Neutral
  /\ snap = NoSnap
  /\ hold_until = 0 /\ next_a = Inf /\ next_rt = Inf /\ elapsed = 0
  /\ w = <<>> /\ vec = <<>> /\ hold_arg = 0 /\ inten = 0 /\ gate = NoGate
  /\ cpc = "idle" /\ ai = 0
  /\ seen = CfgNames /\ hold_src = <<0, 0>> /\ loop_ops = <<"", "">>
  /\ log = <<>> /\ t_ops = <<>>
  /\ fresh = NoFresh

\* One call _parse_range(s, clamp).
ParseRange ==
  /\ pc = "parse_range"
  /\ vec' = parse_range(s, cfg_arg)
  /\ pc' = IF vec' = <<>> THEN "ValueError" ELSE "range"
  /\ UNCHANGED <<worker, sink, snap, hold_until, next_a, next_rt, elapsed, w,
                 hold_arg, inten, gate, ctl, hist>>

\* One call _parse_weights(s); the worker is given the result.
ParseWeights ==
  /\ pc = "parse_weights"
  /\ inst' = [inst EXCEPT !.dir_w = parse_weights(s)]
  /\ pc' = "L140"
  /\ UNCHANGED <<running, terminate, lock, guard, current_mag, sink, snap,
                 hold_until, next_a, next_rt, elapsed, w, vec, hold_arg, inten,
                 gate, ctl, hist>>

ParseNext == ParseRange \/ ParseWeights \/ L140 \/ L142

ParseSpec == ParseInit /\ [][ParseNext]_vars

\* C18: every pair _parse_range returns has lo <= hi (an inverted input comes
\* back swapped), and with a clamp (c0, c1) both bounds lie in [c0, c1].
C18_RangeNormalized ==
  pc = "range" =>
    /\ Le(vec[1], vec[2])
    /\ cfg_arg # <<>> =>
         \A i \in 1..2 : Le(Num(cfg_arg[1]), vec[i]) /\ Le(vec[i], Num(cfg_arg[2]))

\* C19: the weights _parse_weights returns are four non-negative numbers, not
\* all zero, and _pick_direction can draw with them.
C19_WeightsUsable ==
  /\ pc \in {"L140", "L142", "L148"} =>
       /\ Len(inst.dir_w) = 4
       /\ \A i \in 1..4 : inst.dir_w[i] >= 0
       /\ \E i \in 1..4 : inst.dir_w[i] # 0
  /\ pc # "raised"

-----------------------------------------------------------------------------
(* Pause and resume: a worker that has been switched on.                    *)

\* The state after main's MovementWorker(backend, ...) and
\* worker.apply_live_config(cfg) (xpad_app.py, lines 61-79) and one toggle()
\* that has returned: the worker is Running and its thread has not run yet.
\* log counts the calls made after that toggle.
ResumeInit ==
  /\ running = TRUE
  /\ terminate = FALSE
  /\ lock = "free"
  /\ inst = InitFields(InitCfg)
  /\ guard = ForegroundGuard(Cfg[InitCfg].guard_enabled, Cfg[InitCfg].guard_mode,
                             Cfg[InitCfg].guard_processes,
                             Cfg[InitCfg].guard_check_ms)
  /\ current_mag = 0
  /\ gp = Neutral
  /\ dev = Neutral
  /\ pc = "unstarted"
  /\ snap = NoSnap
  /\ hold_until = 0
  /\ next_a = Inf
  /\ next_rt = Inf
  /\ elapsed = 0
  /\ w = <<>>
  /\ vec = <<>>
  /\ hold_arg = 0
  /\ inten = 0
  /\ gate = NoGate
  /\ cpc = "idle"
  /\ ai = 0
  /\ cfg_arg = "A"
  /\ s = "ON"
  /\ seen = CfgNames
  /\ hold_src = <<0, 0>>
  /\ loop_ops = <<"", "">>
  /\ log = <<>>
  /\ t_ops = <<>>
  /\ fresh = NoFresh

\* The calls that follow are toggle() and stop().
ResumeSpec == ResumeInit /\ [][ScenarioNext]_vars

\* The state ResumeSpec starts from is one the worker reaches.
SwitchedOn ==
  /\ running /\ s = "ON" /\ cpc = "idle" /\ log = <<"apply", "toggle">>
  /\ pc = "unstarted" /\ t_ops = <<>>
  /\ inst = InitFields(InitCfg)
  /\ guard = ForegroundGuard(Cfg[InitCfg].guard_enabled, Cfg[InitCfg].guard_mode,
                             Cfg[InitCfg].guard_processes,
                             Cfg[InitCfg].guard_check_ms)

\* C21: after a pause neither channel fires on a due time sampled before the
\* pause: tap_a (pull_rt) is issued only when next_a (next_rt) was sampled
\* since the loop last saw the worker not Running.
C21_NoFireOnStaleDueTime ==
  /\ pc = "L202" => fresh.a
  /\ pc = "L206" => fresh.rt

\* C22: _current_mag reads 0 whenever the gate has just denied (lines 176-178
\* of that tick) and whenever the loop is in a paused tick, which is where it
\* is after toggle() into Stopped.
C22_MagZeroWhenDeniedOrPaused ==
  /\ pc \in {"L176", "L177", "L178"} => current_mag = 0
  /\ (pc = "L183" /\ ~snap.local_running) => current_mag = 0

\* The positions at which the loop sleeps, and those at which the hotkey
\* thread makes a sink call.
SleepPcs == {"L178", "L183", "L210", "tap_a_sleep", "pull_rt_sleep"}
CtlSinkPcs == {"T128", "T129", "close_neutralize", "close_update",
               "close_reset", "close_update2"}

\* C23: the lock is never held across a sleep, a sink call or the gate's
\* query, on any path of the loop (the Terminating one included) and in
\* toggle(), stop() and apply_live_config().
C23_LockNotHeldAcrossCalls ==
  /\ lock = "loop" => pc \notin SinkPcs \cup SleepPcs \cup {"L174"}
  /\ lock = "ctl" => cpc \notin CtlSinkPcs

\* The loop is at a line that reads a field of self shared with the hotkey
\* thread: dir_w, allow_diagonals, mag_rng (137-149), self.guard (174), the
\* ranges of lines 191-208.
LoopReads ==
  \/ pc \in {"L140", "L142", "L148", "L174", "L191", "L202", "L203", "L206",
             "L207", "L208"}
  \/ pc = "L192" /\ next_a = Inf
  \/ pc = "L194" /\ next_rt = Inf

\* C24: the loop's reads of shared state and the writes of toggle(), stop()
\* and apply_live_config() all happen under the lock, so they exclude each
\* other: the loop reads no shared field while the hotkey thread holds the
\* lock, and the hotkey thread writes none while the loop holds it.
C24_SharedStateUnderLock ==
  [][ /\ (LoopReads /\ pc' # pc) => lock # "ctl"
      /\ (<<running, terminate, inst, guard>>' # <<running, terminate, inst, guard>>)
           => lock # "loop" ]_vars

\* The lines of the gate-denied branch (175-179).
DeniedPcs == {"L175", "L176", "L177", "L178"}

\* C25: a tick in which the gate denies, Running or Stopped, sets _current_mag
\* to 0, neutralizes, commits, sleeps one tick and restarts the loop; it makes
\* no other sink call and leaves hold_until, next_a and next_rt as they were.
C25_DeniedTick ==
  [][ /\ (pc = "L174" /\ pc' # pc) => (pc' = "L175") = ~gate'.ok
      /\ (pc = "L175" /\ pc' # pc) => pc' = "L176" /\ current_mag' = 0
      /\ (pc = "L176" /\ pc' # pc) =>
            pc' = "L177" /\ gp' = Neutral /\ loop_ops' = Push("neutralize")
      /\ (pc = "L177" /\ pc' # pc) =>
            pc' = "L178" /\ dev' = gp /\ loop_ops' = Push("update")
      /\ (pc = "L178" /\ pc' # pc) =>
            /\ pc' = "L161"
            /\ elapsed' = Min(ElapsedMax, elapsed + snap.tick)
            /\ UNCHANGED <<sink, loop_ops>>
      /\ (pc \in DeniedPcs \/ pc' \in DeniedPcs) =>
            UNCHANGED <<hold_until, next_a, next_rt>> ]_vars

\* A denied tick of a Running worker has neutralized and committed, with the
\* rotation and both channels scheduled.
C25_Witness ==
  /\ pc = "L178" /\ dev = Neutral /\ current_mag = 0
  /\ snap.local_running /\ next_a # Inf /\ next_rt # Inf /\ hold_until > 0

-----------------------------------------------------------------------------
(* xpad_toggle_move_v2.py: the single-file program, its worker_loop and the *)
(* hotkey cases of its main.  It has no gate and no reload; its settings    *)
(* are module globals read once by load_cfg.                                *)

\* The variables worker_loop and main of xpad_toggle_move_v2.py never touch.
V2Frame == UNCHANGED <<inst, current_mag, w, gate, ai, cfg_arg, seen, hold_src,
                       t_ops, fresh>>

\* The state after load_cfg() and make_gamepad(): running and terminate are
\* False, the settings are those of one of the configs.
V2Init ==
  /\ running = FALSE
  /\ terminate = FALSE
  /\ lock = "free"
  /\ \E c \in CfgNames : inst = InitFields(c)
  /\ guard = ForegroundGuard(FALSE, "blacklist", {}, 150)
  /\ current_mag = 0
  /\ gp = Neutral
  /\ dev = Neutral
  /\ pc = "unstarted"
  /\ snap = NoSnap
  /\ hold_until = 0
  /\ next_a = Inf
  /\ next_rt = Inf
  /\ elapsed = 0
  /\ w = <<>>
  /\ vec = <<0, 0>>
  /\ hold_arg = 0
  /\ inten = 0
  /\ gate = NoGate
  /\ cpc = "idle"
  /\ ai = 0
  /\ cfg_arg = "A"
  /\ s = ""
  /\ seen = CfgNames
  /\ hold_src = <<0, 0>>
  /\ loop_ops = <<"", "">>
  /\ log = <<>>
  /\ t_ops = <<>>
  /\ fresh = NoFresh

\* main: t.start().
v2_start ==
  /\ pc = "unstarted"
  /\ pc' = "V221"
  /\ UNCHANGED <<worker, sink, snap, hold_until, next_a, next_rt, elapsed, w,
                 vec, hold_arg, inten, gate, ctl, hist>>

\* worker_loop, lines 221-227: hold_until = 0.0, now = time.time(), each
\* channel's due time sampled at once if the channel is enabled, else inf.
V221 ==
  /\ pc = "V221"
  /\ hold_until' = 0
  /\ elapsed' = 0
  /\ next_a' \in (IF inst.enable_a THEN Uniform(inst.a_int_rng) ELSE {Inf})
  /\ next_rt' \in (IF inst.enable_rt THEN Uniform(inst.rt_int_rng) ELSE {Inf})
  /\ pc' = "V242"
  /\ UNCHANGED <<worker, sink, snap, w, vec, hold_arg, inten, gate, ctl, hist>>

\* neutralize() of line 242: the three setters, then gp.update().
V242 ==
  \/ LoopNeutralize("V242", "V242u")
  \/ LoopUpdate("V242u", "V245")

\* with state_lock: the terminate test and local_running = running.
V245 ==
  /\ pc = "V245"
  /\ lock = "free"
  /\ IF terminate
     THEN /\ lock' = "loop"
          /\ pc' = "V247"
          /\ UNCHANGED snap
     ELSE /\ snap' = [NoSnap EXCEPT !.local_running = running]
          /\ pc' = "V251"
          /\ UNCHANGED lock
  /\ UNCHANGED <<running, terminate, guard, sink, hold_until, next_a, next_rt,
                 elapsed, vec, hold_arg, inten, cpc, s, loop_ops, log>>
  /\ V2Frame

\* neutralize() of line 247, inside the lock: the setters, then gp.update()
\* and the return, which releases the lock.
V247 ==
  \/ LoopNeutralize("V247", "V247u")
  \/ /\ pc = "V247u"
     /\ dev' = gp
     /\ loop_ops' = Push("update")
     /\ lock' = "free"
     /\ pc' = "done"
     /\ UNCHANGED <<running, terminate, guard, gp, snap, hold_until, next_a,
                    next_rt, elapsed, vec, hold_arg, inten, cpc, s, log>>
     /\ V2Frame

\* now = time.time(), then the tests of lines 253 and 258.
V251 ==
  /\ pc = "V251"
  /\ elapsed' = 0
  /\ hold_until' = Rebase(hold_until)
  /\ next_a' = Rebase(next_a)
  /\ next_rt' = Rebase(next_rt)
  /\ pc' = IF ~snap.local_running THEN "V254"
           ELSE IF Reached(hold_until') THEN "V259" ELSE "V269"
  /\ UNCHANGED <<worker, sink, snap, w, vec, hold_arg, inten, gate, ctl, hist>>

\* if not local_running: neutralize(); time.sleep(0.03); continue.
V254 ==
  \/ LoopNeutralize("V254", "V254u")
  \/ LoopUpdate("V254u", "V255")
  \/ LoopSleep("V255", PauseSleep, "V245")

\* base_dir = random.choice(CARDINALS); mag = random.uniform(*RANGE);
\* current_vec = (base_dir[0] * mag, base_dir[1] * mag), in millionths.
V259 ==
  /\ pc = "V259"
  /\ \E i \in 1..4, mag \in Uniform(inst.mag_rng) :
       vec' = <<Cardinals[i][1] * mag, Cardinals[i][2] * mag>>
  /\ pc' = "V262"
  /\ UNCHANGED <<worker, sink, snap, hold_until, next_a, next_rt, elapsed, w,
                 hold_arg, inten, gate, ctl, hist>>

\* gp.left_joystick_float(current_vec[0], current_vec[1]).
V262 ==
  /\ pc = "V262"
  /\ gp' = [gp EXCEPT !.x = vec[1], !.y = vec[2]]
  /\ loop_ops' = Push("set_left_stick")
  /\ pc' = "V265"
  /\ UNCHANGED <<worker, dev, snap, hold_until, next_a, next_rt, elapsed, vec,
                 hold_arg, inten, cpc, s, log>>
  /\ V2Frame

V265 == LoopUpdate("V265", "V266")

\* hold_until = now + random.uniform(*HOLD_SECONDS_RANGE).
V266 ==
  /\ pc = "V266"
  /\ hold_until' \in Uniform(inst.hold_rng)
  /\ pc' = "V269"
  /\ UNCHANGED <<worker, sink, snap, next_a, next_rt, elapsed, w, vec, hold_arg,
                 inten, gate, ctl, hist>>

\* A line of worker_loop that only tests or assigns the channel state:
\* the pad, the flags and the clock stay as they are.
V2Local(at, to) ==
  /\ pc = at
  /\ pc' = to
  /\ UNCHANGED <<worker, sink, snap, hold_until, elapsed, w, vec, hold_arg,
                 gate, ctl, hist>>

\* A setter of the pad inside a channel's action.
V2Pad(at, pad, op, to) ==
  /\ pc = at
  /\ gp' = pad
  /\ loop_ops' = IF op = "" THEN loop_ops ELSE Push(op)
  /\ pc' = to
  /\ UNCHANGED <<worker, dev, snap, hold_until, next_a, next_rt, elapsed, vec,
                 hold_arg, inten, cpc, s, log>>
  /\ V2Frame

\* if ENABLE_A and now >= next_a_at.
V269 ==
  /\ V2Local("V269", IF inst.enable_a /\ Reached(next_a) THEN "V270" ELSE "V278")
  /\ UNCHANGED <<next_a, next_rt, inten>>

\* press_button(A); update(); sleep(uniform(*A_HOLD_SECONDS_RANGE));
\* release_button(A); update().
V270 ==
  \/ V2Pad("V270", [gp EXCEPT !.a = TRUE], "tap_a", "V271")
  \/ PadUpdate("V271", "V272")
  \/ \E h \in Uniform(inst.a_hold_rng) : LoopSleep("V272", h, "V273")
  \/ V2Pad("V273", [gp EXCEPT !.a = FALSE], "", "V274")
  \/ PadUpdate("V274", "V275")

\* next_a_at = now + random.uniform(*A_INTERVAL_RANGE).
V275 ==
  /\ V2Local("V275", "V278")
  /\ next_a' \in Uniform(inst.a_int_rng)
  /\ UNCHANGED <<next_rt, inten>>

\* if ENABLE_RT and now >= next_rt_at.
V278 ==
  /\ V2Local("V278", IF inst.enable_rt /\ Reached(next_rt) THEN "V279" ELSE "V287")
  /\ UNCHANGED <<next_a, next_rt, inten>>

\* intensity = random.uniform(*RT_INTENSITY_RANGE).
V279 ==
  /\ V2Local("V279", "V280")
  /\ inten' \in Uniform(inst.rt_inten_rng)
  /\ UNCHANGED <<next_a, next_rt>>

\* right_trigger_float(intensity); update(); sleep(uniform(*RT_HOLD_SECONDS_RANGE));
\* right_trigger_float(0.0); update().
V280 ==
  \/ V2Pad("V280", [gp EXCEPT !.rt = inten], "pull_rt", "V281")
  \/ PadUpdate("V281", "V282")
  \/ \E h \in Uniform(inst.rt_hold_rng) : LoopSleep("V282", h, "V283")
  \/ V2Pad("V283", [gp EXCEPT !.rt = 0], "", "V284")
  \/ PadUpdate("V284", "V285")

\* next_rt_at = now + random.uniform(*RT_INTERVAL_RANGE).
V285 ==
  /\ V2Local("V285", "V287")
  /\ next_rt' \in Uniform(inst.rt_int_rng)
  /\ inten' = 0
  /\ UNCHANGED next_a

\* time.sleep(LOOP_SLEEP_SECONDS).
V287 == LoopSleep("V287", inst.loop_tick, "V245")

\* main, hotkey 1: running = not running under state_lock.
v2_toggle ==
  /\ CanCall
  /\ lock = "free"
  /\ running' = ~running
  /\ s' = IF running' THEN "ON" ELSE "OFF"
  /\ log' = Append(log, "toggle")
  /\ UNCHANGED <<terminate, lock, guard, sink, loop_ops, cpc>>
  /\ UNCHANGED <<pc, snap, hold_until, next_a, next_rt, elapsed, vec, hold_arg,
                 inten>>
  /\ V2Frame

\* main, hotkey 2: terminate = True, running = False under state_lock; break.
v2_exit ==
  /\ CanCall
  /\ lock = "free"
  /\ terminate' = TRUE
  /\ running' = FALSE
  /\ log' = Append(log, "exit")
  /\ cpc' = "V355"
  /\ UNCHANGED <<lock, guard, sink, loop_ops, s>>
  /\ UNCHANGED <<pc, snap, hold_until, next_a, next_rt, elapsed, vec, hold_arg,
                 inten>>
  /\ V2Frame

\* finally: gp.reset(), then gp.update(); main returns.
V355 ==
  \/ /\ cpc = "V355"
     /\ gp' = Neutral
     /\ cpc' = "V356"
     /\ UNCHANGED <<worker, dev, loop, ai, cfg_arg, s, hist>>
  \/ /\ cpc = "V356"
     /\ dev' = gp
     /\ cpc' = "exited"
     /\ UNCHANGED <<worker, gp, loop, ai, cfg_arg, s, hist>>

V2Next ==
  \/ v2_start \/ V221 \/ V242 \/ V245 \/ V247 \/ V251 \/ V254
  \/ V259 \/ V262 \/ V265 \/ V266 \/ V269 \/ V270 \/ V275
  \/ V278 \/ V279 \/ V280 \/ V285 \/ V287
  \/ v2_toggle \/ v2_exit \/ V355

V2Spec == V2Init /\ [][V2Next]_vars

\* C26: a tick whose snapshot is not Running (and not Terminating), the gate
\* allowing, goes from reading the clock straight to the fixed short sleep and
\* back to the top of the loop: no sink call, _current_mag unchanged, and
\* hold_until, next_a, next_rt the same points in time (relative to the
\* clock value just read they are their Rebase).  Stated for _loop of
\* togglepad/worker.py (L181, L183) and worker_loop of xpad_toggle_move_v2.py
\* (V251, V255).
C26_PausedTickTouchesNothing ==
  [][ /\ (pc \in {"L181", "V251"} /\ ~snap.local_running /\ pc' # pc) =>
            /\ pc' = (IF pc = "L181" THEN "L183" ELSE "V255")
            /\ hold_until' = Rebase(hold_until)
            /\ next_a' = Rebase(next_a)
            /\ next_rt' = Rebase(next_rt)
            /\ UNCHANGED <<sink, loop_ops, current_mag>>
      /\ (pc \in {"L183", "V255"} /\ pc' # pc) =>
            /\ pc' = (IF pc = "L183" THEN "L161" ELSE "V245")
            /\ elapsed' = Min(ElapsedMax, elapsed + PauseSleep)
            /\ UNCHANGED <<sink, loop_ops, current_mag, hold_until, next_a,
                           next_rt>> ]_vars

\* C27: a channel is armed (its due time leaves inf) only by a rotation that
\* fires while the channel is enabled, in the tick's snapshot or in the live
\* parameters; a channel disabled at the rotation stays unarmed, so that its
\* first due time is sampled by the first rotation after it is enabled.
C27_ArmedOnlyWhileEnabled ==
  [][ /\ (next_a = Inf /\ next_a' # Inf) =>
            pc = "L192" /\ (snap.enable_a \/ inst.enable_a)
      /\ (next_rt = Inf /\ next_rt' # Inf) =>
            pc = "L194" /\ (snap.enable_rt \/ inst.enable_rt) ]_vars

\* The part of a tick a line of _loop belongs to: 1 the rotation (lines
\* 186-195), 2 channel A (201-203, tap_a), 3 channel B (205-208, pull_rt),
\* 4 the sleep of line 210; 0 elsewhere.
Stage(p) ==
  CASE p \in {"L140", "L142", "L148", "L189", "L190", "L191", "L192", "L194"} -> 1
    [] p \in {"L201", "L202", "tap_a_press", "tap_a_update1", "tap_a_sleep",
              "tap_a_release", "tap_a_update2", "L203"} -> 2
    [] p \in {"L205", "L206", "L207", "pull_rt_set", "pull_rt_update1",
              "pull_rt_sleep", "pull_rt_zero", "pull_rt_update2", "L208"} -> 3
    [] p = "L210" -> 4
    [] OTHER -> 0

\* C28: within a tick the rotation comes first, then channel A, then channel
\* B: the loop never goes back to an earlier part, channel B's test is reached
\* only from channel A's test or from the end of tap_a, pull_rt starts with
\* the A button released and committed, and set_left_stick is issued only in
\* the rotation.
C28_TickOrder ==
  [][ pc' # pc =>
        /\ (Stage(pc) > 0 /\ Stage(pc') > 0) => Stage(pc') >= Stage(pc)
        /\ Stage(pc') = 1 => pc = "L181" \/ Stage(pc) = 1
        /\ pc' = "L201" => pc \in {"L181", "L194"}
        /\ pc' = "L205" => pc \in {"L201", "L203"}
        /\ pc' = "L203" => pc = "tap_a_update2" /\ ~gp'.a /\ ~dev'.a
        /\ pc' = "pull_rt_set" => pc = "L207" /\ ~gp.a /\ ~dev.a
        /\ pc' = "L210" => pc \in {"L205", "L208"}
        /\ loop_ops' = Push("set_left_stick") => pc = "L189" ]_vars

\* A tick whose tap_a has completed, its hold having elapsed, and that is now
\* pulling RT.
C28_Witness ==
  /\ pc = "pull_rt_update1"
  /\ loop_ops = <<"tap_a", "pull_rt">>
  /\ hold_until > 0 /\ elapsed > 0

\* C29: with only_actions_while_moving set in the tick's snapshot, tap_a and
\* pull_rt are issued only if _current_mag >= move_threshold; with it clear the
\* magnitude does not gate.  A due action that is blocked keeps its due time
\* and the tick goes on, so it fires in the first later tick where the rule
\* passes: whenever the rule passes for an enabled, due channel, it fires.
C29_OnlyWhileMoving ==
  [][ /\ (pc = "L201" /\ pc' # pc) =>
            /\ pc' = "L202" => (snap.only_while_moving => current_mag >= snap.move_thresh)
            /\ (snap.only_while_moving /\ current_mag < snap.move_thresh) =>
                  pc' = "L205" /\ next_a' = next_a
            /\ (snap.enable_a /\ Reached(next_a)
                  /\ (snap.only_while_moving => current_mag >= snap.move_thresh)) =>
                  pc' = "L202"
      /\ (pc = "L205" /\ pc' # pc) =>
            /\ pc' = "L206" => (snap.only_while_moving => current_mag >= snap.move_thresh)
            /\ (snap.only_while_moving /\ current_mag < snap.move_thresh) =>
                  pc' = "L210" /\ next_rt' = next_rt
            /\ (snap.enable_rt /\ Reached(next_rt)
                  /\ (snap.only_while_moving => current_mag >= snap.move_thresh)) =>
                  pc' = "L206" ]_vars

\* Channel A, enabled and due, has just been blocked by the rule.
C29_Witness ==
  /\ pc = "L205"
  /\ snap.only_while_moving /\ current_mag < snap.move_thresh
  /\ snap.enable_a /\ Reached(next_a)

\* C30: a channel whose due time has passed, however long ago, is due: in a
\* Running, gate-allowed tick with the channel enabled and moving_ok true it
\* fires, once (the tick goes on to the next part), and its due time becomes
\* the tick's now plus a sample of its interval Range.
C30_PastDueFiresOnce ==
  [][ /\ (pc = "L201" /\ pc' # pc /\ snap.enable_a /\ moving_ok /\ next_a # Inf
            /\ next_a <= 0) => pc' = "L202"
      /\ (pc = "L203" /\ pc' # pc) =>
            /\ pc' = "L205"
            /\ inst.a_int_rng[1] <= next_a' /\ next_a' <= inst.a_int_rng[2]
      /\ (pc = "L205" /\ pc' # pc /\ snap.enable_rt /\ moving_ok /\ next_rt # Inf
            /\ next_rt <= 0) => pc' = "L206"
      /\ (pc = "L208" /\ pc' # pc) =>
            /\ pc' = "L210"
            /\ inst.rt_int_rng[1] <= next_rt' /\ next_rt' <= inst.rt_int_rng[2] ]_vars

\* Channel A fires on a due time that passed while the worker was paused.
C30_Witness ==
  /\ pc = "L202"
  /\ ~fresh.a
  /\ next_a = 0

-----------------------------------------------------------------------------
(* The random source: random.seed in main, random.choices and               *)
(* random.uniform in _pick_direction and _loop.                             *)

\* The lines of the worker thread that draw from the random source, in the
\* order of a tick: direction choice, magnitude, rotation hold, channel A
\* arming, channel B arming, A hold, A interval, B intensity, B hold,
\* B interval.
SampleLines == <<"L142", "L148", "L191", "L192", "L194", "L202", "L203", "L206",
                 "L207", "L208">>

\* How many of the sampling lines the tick has passed when the loop is at p
\* (-1 outside the body of a Running tick).
Drawn(p) ==
  CASE p \in {"L140", "L142"} -> 0
    [] p = "L148" -> 1
    [] p \in {"L189", "L190", "L191"} -> 2
    [] p = "L192" -> 3
    [] p = "L194" -> 4
    [] p \in {"L201", "L202"} -> 5
    [] p \in {"tap_a_press", "tap_a_update1", "tap_a_sleep", "tap_a_release",
              "tap_a_update2", "L203"} -> 6
    [] p \in {"L205", "L206"} -> 7
    [] p = "L207" -> 8
    [] p \in {"pull_rt_set", "pull_rt_update1", "pull_rt_sleep", "pull_rt_zero",
              "pull_rt_update2", "L208"} -> 9
    [] p = "L210" -> 10
    [] OTHER -> -1

\* Within a tick the samples are drawn in one fixed order (SampleLines) and
\* only by the loop: every step of the loop inside a tick moves forward past
\* the sampling lines, the line at position i is the i-th in that order, and
\* the values sampled (direction and magnitude, the due times, the hold and
\* the intensity) change at their own lines of the loop only, never in a step
\* of the hotkey thread.
SamplingOrderFixed ==
  [][ /\ (pc' # pc /\ Drawn(pc) >= 0 /\ Drawn(pc') >= 0) =>
            /\ Drawn(pc') >= Drawn(pc)
            /\ (\E i \in 1..Len(SampleLines) : SampleLines[i] = pc) =>
                  /\ SampleLines[Drawn(pc) + 1] = pc
                  /\ Drawn(pc') > Drawn(pc)
      /\ (pc' # pc /\ Drawn(pc) < 0 /\ Drawn(pc') >= 0) => pc = "L181"
      /\ vec' # vec => pc \in {"L142", "L148", "L189"}
      /\ (current_mag' # current_mag /\ current_mag' # 0) => pc = "L148"
      /\ (hold_until' # hold_until /\ hold_until' # Rebase(hold_until)) =>
            pc \in {"L154", "L191"}
      /\ (next_a' # next_a /\ next_a' # Rebase(next_a)) =>
            pc \in {"L154", "L192", "L203"}
      /\ (next_rt' # next_rt /\ next_rt' # Rebase(next_rt)) =>
            pc \in {"L154", "L194", "L208"}
      /\ (hold_arg' # hold_arg /\ hold_arg' # 0) => pc \in {"L202", "L207"}
      /\ (inten' # inten /\ inten' # 0) => pc = "L206"
      /\ (pc' = pc) =>
            UNCHANGED <<vec, current_mag, hold_until, next_a, next_rt, hold_arg,
                        inten>> ]_vars

\* The field of self the sampling line p draws from (or weighs with).
SampledField(p) ==
  CASE p = "L140" -> "dir_w"
    [] p = "L142" -> "allow_diagonals"
    [] p = "L148" -> "mag_rng"
    [] p = "L191" -> "hold_rng"
    [] p \in {"L192", "L203"} -> "a_int_rng"
    [] p \in {"L194", "L208"} -> "rt_int_rng"
    [] p = "L202" -> "a_hold_rng"
    [] p = "L206" -> "rt_inten_rng"
    [] p = "L207" -> "rt_hold_rng"
    [] OTHER -> "none"

\* apply_live_config, running in the hotkey thread, is about to assign the
\* field f a value other than the one installed.
ReloadAboutToChange(f) ==
  /\ cpc = "apply"
  /\ ai \in 1..Len(Assignments)
  /\ Assignments[ai].to = f
  /\ Cfg[cfg_arg][Assignments[ai].from] # inst[f]

\* C31: with the seed, the tick times, the gate results and the control
\* signals fixed, the sequence of sink calls is fixed; nothing is left to the
\* scheduling of the two threads.  So the loop is never about to draw a sample
\* from a field that a reload in progress is about to change: the same draw
\* would give one value if the loop's step runs first and another if the
\* reload's does.
C31_SameInputsSameSinkCalls ==
  ~(LoopReads /\ SampledField(pc) # "none" /\ ReloadAboutToChange(SampledField(pc)))

-----------------------------------------------------------------------------
(* The due times before the first rotation.                                 *)

\* C32: no tap_a or pull_rt call is issued before the loop's first
\* set_left_stick call.  The loop starts with both due times at "never"
\* (line 154: the step at L154 leaves them Inf); a due time leaves "never"
\* only at line 192 (channel A) or 194 (channel B), the loop's last two sink
\* calls then being the set_left_stick and update of lines 189-190; and the
\* loop enters a tap_a (line 202) or a pull_rt (line 206) only with that
\* channel's due time armed.  No step of toggle(), stop(), apply_live_config()
\* or of a denied or paused tick changes a due time otherwise than by the
\* passing of time.
C32_NeverDueBeforeFirstRotation ==
  [][ /\ pc \in {"unstarted", "L152", "L153", "L154"} =>
            (next_a' = Inf /\ next_rt' = Inf)
      /\ (next_a = Inf /\ next_a' # Inf) =>
            (pc = "L192" /\ loop_ops = <<"set_left_stick", "update">>)
      /\ (next_rt = Inf /\ next_rt' # Inf) =>
            (pc = "L194" /\ loop_ops = <<"set_left_stick", "update">>)
      /\ (pc' = "L202" /\ pc # "L202") => next_a # Inf
      /\ (pc' = "L206" /\ pc # "L206") => next_rt # Inf
      /\ (pc' = pc) => (next_a' = next_a /\ next_rt' = next_rt) ]_vars

\* After MaxCalls calls of the hotkey thread (a toggle() into Running among
\* them), the rotation of lines 189-190 has just armed channel A, channel B
\* not yet.
C32_Witness ==
  /\ pc = "L194"
  /\ next_a # Inf
  /\ next_rt = Inf
  /\ loop_ops = <<"set_left_stick", "update">>
  /\ Len(log) = MaxCalls

-----------------------------------------------------------------------------
(* What a reload leaves alone.                                              *)

\* A step of apply_live_config: the call taking the lock, one of its
\* assignments, or the assignment of the guard that ends it.
ApplyStep ==
  \/ cpc = "idle" /\ cpc' = "apply"
  \/ cpc = "apply" /\ ai' # ai

\* C33: apply_live_config changes only the installed parameters and the gate.
\* Every step of it leaves the running flag, the terminate flag, _current_mag,
\* the loop's hold_until, next_a and next_rt, the loop's position and the sink
\* unchanged: a reload never starts, pauses or stops the schedule and never
\* reschedules a channel that is already armed.
C33_ReloadFrame ==
  [][ ApplyStep =>
        /\ UNCHANGED <<running, terminate, current_mag, s>>
        /\ UNCHANGED <<hold_until, next_a, next_rt, elapsed, pc, snap, fresh>>
        /\ UNCHANGED <<sink, loop_ops, t_ops>> ]_vars

\* A reload of config B has replaced a_int_rng while the worker is Running
\* and channel A is armed with a due time sampled from the range of config A
\* (longer than any of B's), which it keeps.
C33_Witness ==
  /\ cpc = "apply"
  /\ cfg_arg = "B"
  /\ ai = Len(Assignments) + 1
  /\ running
  /\ inst.a_int_rng = Cfg["B"].a_interval_range
  /\ next_a # Inf
  /\ next_a > Cfg["B"].a_interval_range[2]

-----------------------------------------------------------------------------
(* The exit signal: on_exit calls worker.stop() and then backend.close().   *)

\* backend.close() has made its first call on the sink (or has returned).
CloseStarted == cpc \in {"close_update", "close_reset", "close_update2", "exited"}

\* C34: on the exit signal the loop makes no sink call after backend.close()
\* has started; its final neutralize and update and any tap_a or pull_rt in
\* flight are over before the sink is closed.
C34_NoLoopSinkCallAfterClose ==
  [][ (CloseStarted /\ pc' # pc) => pc \notin SinkPcs ]_vars

====
